---- MODULE Spec2Model ----
(***************************************************************************)
(* The streaming multi-provider AI response aggregator of                  *)
(* src/src/services/aiService.ts: the OpenAI-compatible chunk decoder      *)
(* (streamOpenAICompatResponse), the provider router (getModelConfig), the *)
(* prompt builder (buildSystemPrompt) and the aggregator                   *)
(* (generateStreamingResponse), with the handler that consumes a call in   *)
(* src/src/components/ArticleGenerator.tsx (handleGenerate), the article   *)
(* handlers of src/src/App.tsx and the connection test of                  *)
(* src/src/components/SettingsModal.tsx (testConnection).                  *)
(*                                                                         *)
(* Texts are sequences of characters (one-character strings).  A byte      *)
(* stream is a sequence of bytes: an ASCII byte is written as its          *)
(* character, and the two bytes of the one non-ASCII character of the      *)
(* model, U+00E9, are "xC3" and "xA9".                                     *)
(***************************************************************************)
EXTENDS Integers, Sequences, FiniteSets, TLC

VARIABLES
    settings,      \* AiService.settings
    memories,      \* AiService.memories
    examples,      \* AiService.examples
    messages,      \* generateStreamingResponse: messages, the conversation
    pc,            \* where the generator of the call stands
    binding,       \* generateStreamingResponse: { provider, modelId } (line 204)
    systemPrompt,  \* generateStreamingResponse: systemPrompt (line 205)
    requests,      \* the network requests the call has issued (fetch or SDK), in order
    response,      \* streamOpenAICompatResponse: response (empty: none yet)
    stream,        \* what the response will deliver, in order: the bytes of the
                   \* body, or the texts of the SDK's chunks
    pos,           \* how much of stream has been delivered
    pending,       \* bytes held by the TextDecoder (an incomplete character)
    buffer,        \* streamOpenAICompatResponse: buffer
    lines,         \* streamOpenAICompatResponse: lines still to visit in the for loop
    out,           \* the fragments yielded to the consumer so far, in order
    exit,          \* how the generator ended: "none", "sentinel", "closed", "error",
                   \* "abandoned" (the consumer made it return)
    err,           \* the message of the error the generator threw (empty: none)
    reader,        \* streamOpenAICompatResponse: reader, and what has been done to
                   \* the body's stream: "none", "open", "closed", "errored", "cancelled"
    isGenerating,  \* ArticleGenerator: isGenerating
    streamedContent, \* ArticleGenerator: streamedContent
    error,         \* ArticleGenerator: error (empty: null)
    article,       \* ArticleGenerator: what onUpdateArticle was given since the last click on Generate
    written,       \* the arguments the last updateSettings, updateMemories and
                   \* updateExamples were called with (at first what line 133-142 set)
    articles,      \* App: articles
    currentArticle, \* App: currentArticle (empty: null)
    onUpdateArticle, \* the currentArticle that the onUpdateArticle of the running
                   \* handleGenerate closes over (empty: null, or no run)
    appSettings,   \* App: settings
    localSettings, \* SettingsModal: localSettings
    testStatus,    \* SettingsModal: testStatus
    testError,     \* SettingsModal: testError
    testResponse,  \* testConnection: response, the text received so far
    originalSettings, \* testConnection: originalSettings, the settings prop of the
                   \* render that was clicked (empty: no test running)
    second         \* a second generator of generateStreamingResponse, with its own
                   \* messages, binding, systemPrompt, response, reader, buffer, lines

vars == <<settings, memories, examples, messages, pc, binding, systemPrompt, requests,
          response, stream, pos, pending, buffer, lines, out, exit, err, reader,
          isGenerating, streamedContent, error, article, written,
          articles, currentArticle, onUpdateArticle, appSettings,
          localSettings, testStatus, testError, testResponse, originalSettings, second>>

svcVars == <<settings, memories, examples, messages, binding, systemPrompt, requests,
             response>>

\* The state of the component that calls: ArticleGenerator.
callerVars == <<isGenerating, streamedContent, error, article>>

\* The state of App that the components are given.
appVars == <<articles, currentArticle, onUpdateArticle, appSettings>>

\* The state of SettingsModal and of its testConnection.
modalVars == <<localSettings, testStatus, testError, testResponse, originalSettings>>

-----------------------------------------------------------------------------
(* Bounds of the model. *)

\* Newline-terminated lines in a stream of the decoder specification.
MaxLines == 2

\* Bytes the reader delivers in one block; a block may also be all the rest.
MaxBlock == 3

\* Articles in the list beyond which New article is not clicked.
MaxArticles == 2

-----------------------------------------------------------------------------
(* Characters and bytes. *)

NL == "\n"
EAcute == "U+00E9"
Replacement == "U+FFFD"
LeadByte == "xC3"
ContByte == "xA9"

\* The server's encoding of a text as bytes (UTF-8): U+00E9 is two bytes,
\* every other character of the model is one.
Utf8Encode(text) ==
    LET start(i) == i + Cardinality({k \in 1..(i - 1) : text[k] = EAcute})
        total == Len(text) + Cardinality({k \in 1..Len(text) : text[k] = EAcute})
    IN  [j \in 1..total |->
            LET i == CHOOSE k \in 1..Len(text) :
                         start(k) = j \/ (text[k] = EAcute /\ start(k) + 1 = j)
            IN  IF text[i] # EAcute THEN text[i]
                ELSE IF start(i) = j THEN LeadByte ELSE ContByte]

\* decoder.decode(value, { stream: true }) on the held bytes followed by value:
\* the text of the complete characters, and the bytes of an incomplete last
\* character, which are held for the next call.  A lead byte with its
\* continuation byte is U+00E9; a lead byte followed by another byte, and a
\* continuation byte that follows no lead byte, are malformed (U+FFFD).
Utf8Decode(bytes) ==
    LET n == Len(bytes)
        taken(i) == i > 1 /\ bytes[i] = ContByte /\ bytes[i - 1] = LeadByte
        marks == [i \in 1..n |->
                    IF bytes[i] = LeadByte
                    THEN (IF i = n THEN ""
                          ELSE IF bytes[i + 1] = ContByte THEN EAcute ELSE Replacement)
                    ELSE IF bytes[i] = ContByte
                    THEN (IF taken(i) THEN "" ELSE Replacement)
                    ELSE bytes[i]]
    IN  [text |-> SelectSeq(marks, LAMBDA c : c # ""),
         held |-> IF n >= 1 /\ bytes[n] = LeadByte THEN <<LeadByte>> ELSE <<>>]

-----------------------------------------------------------------------------
(* String operations of the decoder. *)

\* buffer.split('\n'): the segments between newlines, always at least one.
RECURSIVE Split(_)
Split(text) ==
    IF \A i \in 1..Len(text) : text[i] # NL THEN <<text>>
    ELSE LET i == CHOOSE j \in 1..Len(text) :
                      text[j] = NL /\ \A k \in 1..(j - 1) : text[k] # NL
         IN  <<SubSeq(text, 1, i - 1)>> \o Split(SubSeq(text, i + 1, Len(text)))

DataPrefix == <<"d", "a", "t", "a", ":", " ">>
Sentinel == <<"[", "D", "O", "N", "E", "]">>

\* line.startsWith(prefix)
StartsWith(line, prefix) ==
    Len(line) >= Len(prefix) /\ SubSeq(line, 1, Len(prefix)) = prefix

\* line.slice(n)
Slice(line, n) == SubSeq(line, n + 1, Len(line))

-----------------------------------------------------------------------------
(* JSON values and JSON.parse. *)

Undefined == [t |-> "undefined"]
JNull == [t |-> "null"]
JNum(n) == [t |-> "number", n |-> n]
JStr(s) == [t |-> "string", s |-> s]
JArr(a) == [t |-> "array", a |-> a]
JObj(f) == [t |-> "object", f |-> f]

JsonHead == <<"{", "\"", "c", "h", "o", "i", "c", "e", "s", "\"", ":", "[", "{",
              "\"", "d", "e", "l", "t", "a", "\"", ":", "{">>
ContentKey == <<"\"", "c", "o", "n", "t", "e", "n", "t", "\"", ":">>
JsonTail == <<"}", "}", "]", "}">>
NoChoicesText == <<"{", "\"", "c", "h", "o", "i", "c", "e", "s", "\"", ":", "[", "]", "}">>
NullText == <<"n", "u", "l", "l">>
Digits == <<"0", "1", "2", "3", "4", "5", "6", "7", "8", "9">>

\* A JSON scalar: a string literal without escapes, a one-digit number or null.
\* [ok |-> FALSE] is JSON.parse's SyntaxError.
ParseScalar(text) ==
    IF text = NullText THEN [ok |-> TRUE, v |-> JNull]
    ELSE IF Len(text) = 1 /\ \E d \in 1..10 : Digits[d] = text[1]
    THEN [ok |-> TRUE, v |-> JNum((CHOOSE d \in 1..10 : Digits[d] = text[1]) - 1)]
    ELSE IF /\ Len(text) >= 2
            /\ text[1] = "\""
            /\ text[Len(text)] = "\""
            /\ \A i \in 2..(Len(text) - 1) : text[i] \notin {"\"", "\\", NL}
    THEN [ok |-> TRUE, v |-> JStr(SubSeq(text, 2, Len(text) - 1))]
    ELSE [ok |-> FALSE]

\* JSON.parse(data) on the JSON texts of the model: a scalar, the event
\* {"choices":[]}, and the event {"choices":[{"delta":{ ... }}]} whose delta
\* is empty or has the one member "content".  Every other text the model's
\* streams hold is not JSON.
JsonParse(data) ==
    IF data = NoChoicesText
    THEN [ok |-> TRUE, v |-> JObj([choices |-> JArr(<<>>)])]
    ELSE IF /\ Len(data) >= Len(JsonHead) + Len(JsonTail)
            /\ StartsWith(data, JsonHead)
            /\ Slice(data, Len(data) - Len(JsonTail)) = JsonTail
    THEN LET inner == SubSeq(data, Len(JsonHead) + 1, Len(data) - Len(JsonTail))
         IN  IF inner = <<>>
             THEN [ok |-> TRUE,
                   v |-> JObj([choices |-> JArr(<<JObj([delta |-> JObj(<<>>)])>>)])]
             ELSE IF StartsWith(inner, ContentKey)
                     /\ ParseScalar(Slice(inner, Len(ContentKey))).ok
             THEN [ok |-> TRUE,
                   v |-> JObj([choices |-> JArr(<<JObj([delta |-> JObj(
                             [content |-> ParseScalar(Slice(inner, Len(ContentKey))).v]
                         )])>>)])]
             ELSE [ok |-> FALSE]
    ELSE ParseScalar(data)

Nullish(v) == v.t \in {"undefined", "null"}

\* v.key for a v that is neither null nor undefined.
Member(v, key) ==
    IF v.t = "object" /\ key \in DOMAIN v.f THEN v.f[key] ELSE Undefined

\* v?.key
OptMember(v, key) == IF Nullish(v) THEN Undefined ELSE Member(v, key)

\* v?.[0]
OptFirst(v) ==
    IF Nullish(v) THEN Undefined
    ELSE IF v.t = "array" THEN (IF Len(v.a) >= 1 THEN v.a[1] ELSE Undefined)
    ELSE IF v.t = "string" THEN (IF Len(v.s) >= 1 THEN JStr(<<v.s[1]>>) ELSE Undefined)
    ELSE Member(v, "0")

\* if (content)
Truthy(v) ==
    CASE v.t = "undefined" -> FALSE
      [] v.t = "null" -> FALSE
      [] v.t = "string" -> v.s # <<>>
      [] v.t = "number" -> v.n # 0
      [] OTHER -> TRUE

-----------------------------------------------------------------------------
(* The body of the for loop, lines 116-127. *)

\* The try block: JSON.parse and the content expression.  threw is a
\* SyntaxError of JSON.parse or the TypeError of reading .choices of null.
TryContent(data) ==
    LET parsed == JsonParse(data)
    IN  IF ~parsed.ok THEN [threw |-> TRUE]
        ELSE IF parsed.v.t = "null" THEN [threw |-> TRUE]
        ELSE [threw |-> FALSE,
              content |-> OptMember(OptMember(OptFirst(Member(parsed.v, "choices")),
                                              "delta"), "content")]

\* VisitLine with if (content !== undefined) in the place of if (content).
VisitLine_YieldsEmpty(line) ==
    IF ~StartsWith(line, DataPrefix) THEN [kind |-> "skip"]
    ELSE LET data == Slice(line, 6)
         IN  IF data = Sentinel THEN [kind |-> "return"]
             ELSE LET r == TryContent(data)
                  IN  IF r.threw THEN [kind |-> "skip"]
                      ELSE IF r.content.t # "undefined"
                      THEN [kind |-> "yield", content |-> r.content]
                      ELSE [kind |-> "skip"]

\* VisitLine with continue in the place of return at the sentinel.
VisitLine_SentinelSkipped(line) ==
    IF ~StartsWith(line, DataPrefix) THEN [kind |-> "skip"]
    ELSE LET data == Slice(line, 6)
         IN  IF data = Sentinel THEN [kind |-> "skip"]
             ELSE LET r == TryContent(data)
                  IN  IF r.threw THEN [kind |-> "skip"]
                      ELSE IF Truthy(r.content)
                      THEN [kind |-> "yield", content |-> r.content]
                      ELSE [kind |-> "skip"]

\* VisitLine without the try/catch around JSON.parse.
VisitLine_NoCatch(line) ==
    IF ~StartsWith(line, DataPrefix) THEN [kind |-> "skip"]
    ELSE LET data == Slice(line, 6)
         IN  IF data = Sentinel THEN [kind |-> "return"]
             ELSE LET r == TryContent(data)
                  IN  IF r.threw THEN [kind |-> "throw"]
                      ELSE IF Truthy(r.content)
                      THEN [kind |-> "yield", content |-> r.content]
                      ELSE [kind |-> "skip"]

\* One line of the for loop: "skip", "return" (the sentinel), "yield" with
\* the fragment, or "throw".  The catch block swallows what the try block threw.
VisitLine(line) ==
    IF ~StartsWith(line, DataPrefix) THEN [kind |-> "skip"]
    ELSE LET data == Slice(line, 6)
         IN  IF data = Sentinel THEN [kind |-> "return"]
             ELSE LET r == TryContent(data)
                  IN  IF r.threw THEN [kind |-> "skip"]
                      ELSE IF Truthy(r.content)
                      THEN [kind |-> "yield", content |-> r.content]
                      ELSE [kind |-> "skip"]

\* The for loop from the first of ls until it suspends or ends: "yield" with
\* the fragment and the lines left, "return", "throw", or "exhausted" (the
\* loop ran to its end and the generator goes back to reader.read()).
RECURSIVE RunLines(_)
RunLines(ls) ==
    IF ls = <<>> THEN [kind |-> "exhausted", rest |-> <<>>]
    ELSE LET r == VisitLine(Head(ls))
         IN  CASE r.kind = "skip" -> RunLines(Tail(ls))
               [] r.kind = "yield" ->
                      [kind |-> "yield", content |-> r.content, rest |-> Tail(ls)]
               [] OTHER -> [kind |-> r.kind, rest |-> Tail(ls)]

\* buffer = '' in the place of buffer = lines.pop() || ''.
PopOrEmpty_Dropped(ls) == <<>>

\* lines.pop() || ''
PopOrEmpty(ls) == ls[Len(ls)]

\* The lines left after lines.pop().
Front(ls) == SubSeq(ls, 1, Len(ls) - 1)

\* The generator after running the for loop over ls.
AfterLines(ls) ==
    LET r == RunLines(ls)
    IN  /\ lines' = r.rest
        /\ CASE r.kind = "yield" ->
                    /\ out' = Append(out, r.content)
                    /\ pc' = "yielded"
                    /\ UNCHANGED <<exit, err>>
             [] r.kind = "return" ->
                    /\ pc' = "returned"
                    /\ exit' = "sentinel"
                    /\ UNCHANGED <<out, err>>
             [] r.kind = "throw" ->
                    /\ pc' = "threw"
                    /\ exit' = "error"
                    /\ err' = <<"SyntaxError">>
                    /\ UNCHANGED out
             [] OTHER ->
                    /\ pc' = "read"
                    /\ UNCHANGED <<out, exit, err>>

-----------------------------------------------------------------------------
(* The chunk decoder's steps, lines 107-129. *)

\* Lines 108-113 with the text split but the last piece not taken off the
\* buffer: buffer += decode(value) and no buffer = lines.pop().
ReadBlock_KeepsBuffer ==
    /\ pc = "read"
    /\ pos < Len(stream)
    /\ \E k \in (1..MaxBlock) \cup {Len(stream) - pos} :
          /\ k >= 1
          /\ pos + k <= Len(stream)
          /\ LET value == SubSeq(stream, pos + 1, pos + k)
                 d == Utf8Decode(pending \o value)
                 all == Split(buffer \o d.text)
             IN  /\ pos' = pos + k
                 /\ pending' = d.held
                 /\ buffer' = buffer \o d.text
                 /\ AfterLines(Front(all))
    /\ UNCHANGED <<callerVars, reader>>
    /\ UNCHANGED <<svcVars, stream>>
    /\ UNCHANGED written
    /\ UNCHANGED <<appVars, modalVars, second>>

\* reader.read() resolves with a block of k bytes: lines 108-113, then the
\* for loop up to its first yield.
ReadBlock ==
    /\ pc = "read"
    /\ pos < Len(stream)
    /\ \E k \in (1..MaxBlock) \cup {Len(stream) - pos} :
          /\ k >= 1
          /\ pos + k <= Len(stream)
          /\ LET value == SubSeq(stream, pos + 1, pos + k)
                 d == Utf8Decode(pending \o value)
                 all == Split(buffer \o d.text)
             IN  /\ pos' = pos + k
                 /\ pending' = d.held
                 /\ buffer' = PopOrEmpty(all)
                 /\ AfterLines(Front(all))
    /\ UNCHANGED <<callerVars, reader>>
    /\ UNCHANGED <<svcVars, stream>>
    /\ UNCHANGED written
    /\ UNCHANGED <<appVars, modalVars, second>>

\* Line 109 with the buffer decoded as a last line before the generator ends.
ReadDone_FlushesBuffer ==
    /\ pc = "read"
    /\ pos = Len(stream)
    /\ pc' = "returned"
    /\ exit' = "closed"
    /\ reader' = "closed"
    /\ LET r == VisitLine(buffer)
       IN  out' = IF r.kind = "yield" THEN Append(out, r.content) ELSE out
    /\ UNCHANGED callerVars
    /\ UNCHANGED <<svcVars, stream, pos, pending, buffer, lines, err>>
    /\ UNCHANGED written
    /\ UNCHANGED <<appVars, modalVars, second>>

\* reader.read() resolves with done: line 109, and the generator ends.
ReadDone ==
    /\ pc = "read"
    /\ pos = Len(stream)
    /\ pc' = "returned"
    /\ exit' = "closed"
    /\ reader' = "closed"
    /\ UNCHANGED callerVars
    /\ UNCHANGED <<svcVars, stream, pos, pending, buffer, lines, out, err>>
    /\ UNCHANGED written
    /\ UNCHANGED <<appVars, modalVars, second>>

\* The consumer pulls again after a fragment: the for loop goes on.
Resume ==
    /\ pc = "yielded"
    /\ binding.provider # "google"
    /\ AfterLines(lines)
    /\ UNCHANGED <<callerVars, reader>>
    /\ UNCHANGED <<svcVars, stream, pos, pending, buffer>>
    /\ UNCHANGED written
    /\ UNCHANGED <<appVars, modalVars, second>>

-----------------------------------------------------------------------------
(* The streams of the decoder specification. *)

Quoted(s) == <<"\"">> \o s \o <<"\"">>
Event(scalar) == DataPrefix \o JsonHead \o ContentKey \o scalar \o JsonTail

LineHi == Event(Quoted(<<"H", "i">>))
LineAcute == Event(Quoted(<<EAcute>>))
LineEmptyContent == Event(Quoted(<<>>))
LineNumber == Event(<<"7">>)
LineNoContent == DataPrefix \o JsonHead \o JsonTail
LineNull == DataPrefix \o NullText
LineNotJson == DataPrefix \o <<"n", "o", "t", "-", "j", "s", "o", "n">>
LineEmptyPayload == DataPrefix
LineDone == DataPrefix \o Sentinel
LineBlank == <<>>
LineNoSpace == <<"d", "a", "t", "a", ":">> \o Sentinel

LineKinds ==
    {LineHi, LineAcute, LineEmptyContent, LineNumber, LineNoContent, LineNull,
     LineNotJson, LineEmptyPayload, LineDone, LineBlank, LineNoSpace}

\* An unterminated last line: none, a whole event, or the sentinel.
Tails == {<<>>, LineHi, LineDone}

Encoded == [l \in LineKinds |-> Utf8Encode(l)]

RECURSIVE Terminated(_)
Terminated(ls) ==
    IF ls = <<>> THEN <<>> ELSE Encoded[Head(ls)] \o <<NL>> \o Terminated(Tail(ls))

LineSeqs == UNION {[1..n -> LineKinds] : n \in 0..MaxLines}

Streams == {Terminated(ls) \o Encoded[tl] : ls \in LineSeqs, tl \in Tails}

-----------------------------------------------------------------------------
(* The service: settings, the provider router and the prompt builder. *)

\* The settings of a new AiService, lines 133-139.
DefaultSettings ==
    [googleApiKey |-> "", mistralApiKey |-> "", cerebrasApiKey |-> "",
     zhipuApiKey |-> "", selectedModel |-> "gemini-2.5-flash"]

\* The model table of the settings dialog: each identifier with its provider.
models ==
    <<[id |-> "gemini-2.5-flash", provider |-> "Google"],
      [id |-> "gemini-2.5-pro", provider |-> "Google"],
      [id |-> "gemma-3-27b-it", provider |-> "Google"],
      [id |-> "gpt-oss-120b", provider |-> "Cerebras"],
      [id |-> "mistral-large-latest", provider |-> "Mistral"],
      [id |-> "mistral-medium-latest", provider |-> "Mistral"],
      [id |-> "glm-4.5-flash", provider |-> "Zhipu"],
      [id |-> "qwen-3-235b-a22b-instruct-2507", provider |-> "Cerebras"],
      [id |-> "zai-glm-4.6", provider |-> "Cerebras"]>>

ModelIds == {models[i].id : i \in 1..Len(models)}

\* Identifiers no table lists: a stale or mistyped selectedModel.
UnknownIds == {"gemini-1.5-flash", ""}

Identifiers == ModelIds \cup UnknownIds

\* getModelConfig with 'zai-glm-4.6' filed under the zhipu case.
GetModelConfig_GlmToZhipu(model) ==
    CASE model \in {"gemini-2.5-flash", "gemini-2.5-pro", "gemma-3-27b-it"} ->
             [provider |-> "google", modelId |-> model]
      [] model \in {"mistral-large-latest", "mistral-medium-latest"} ->
             [provider |-> "mistral", modelId |-> model]
      [] model \in {"glm-4.5-flash", "zai-glm-4.6"} ->
             [provider |-> "zhipu", modelId |-> model]
      [] model \in {"gpt-oss-120b", "qwen-3-235b-a22b-instruct-2507"} ->
             [provider |-> "cerebras", modelId |-> model]
      [] OTHER -> [provider |-> "google", modelId |-> "gemini-2.5-flash"]

\* getModelConfig, lines 181-199.
GetModelConfig(model) ==
    CASE model \in {"gemini-2.5-flash", "gemini-2.5-pro", "gemma-3-27b-it"} ->
             [provider |-> "google", modelId |-> model]
      [] model \in {"mistral-large-latest", "mistral-medium-latest"} ->
             [provider |-> "mistral", modelId |-> model]
      [] model = "glm-4.5-flash" ->
             [provider |-> "zhipu", modelId |-> model]
      [] model \in {"gpt-oss-120b", "qwen-3-235b-a22b-instruct-2507", "zai-glm-4.6"} ->
             [provider |-> "cerebras", modelId |-> model]
      [] OTHER -> [provider |-> "google", modelId |-> "gemini-2.5-flash"]

\* The style guide, lines 9-69: one piece of text.  A prompt is a sequence of
\* pieces: the pieces of the template literals, and the characters of the
\* contents put between them.
humanWritingPrompt == "humanWritingPrompt"

\* e.content.slice(0, 600)
ExampleSliceEnd == 600

\* slice(0, end) keeping the character of index end too.
SliceTo_OneMore(text, end) ==
    SubSeq(text, 1, IF Len(text) < end + 1 THEN Len(text) ELSE end + 1)

\* text.slice(0, end)
SliceTo(text, end) == SubSeq(text, 1, IF Len(text) < end THEN Len(text) ELSE end)

\* The forEach of lines 163-165 going through the memories from the last.
RECURSIVE MemoryLines_Reversed(_)
MemoryLines_Reversed(ms) ==
    IF ms = <<>> THEN <<>>
    ELSE MemoryLines_Reversed(Tail(ms)) \o <<"U+2022 ">> \o Head(ms).content \o <<NL>>

\* The forEach of lines 163-165.  "U+2022 " is the bullet and the space that
\* start each line.
RECURSIVE MemoryLines(_)
MemoryLines(ms) ==
    IF ms = <<>> THEN <<>>
    ELSE <<"U+2022 ">> \o Head(ms).content \o <<NL>> \o MemoryLines(Tail(ms))

\* The forEach of lines 172-174, from the example of index i.
RECURSIVE ExampleBlocks(_, _)
ExampleBlocks(es, i) ==
    IF es = <<>> THEN <<>>
    ELSE <<"Example ", ToString(i + 1), ":\n\"">>
         \o SliceTo(Head(es).content, ExampleSliceEnd)
         \o <<"...\"\n\n">> \o ExampleBlocks(Tail(es), i + 1)

AuthorContext ==
    <<"\n\n--- AUTHOR CONTEXT ---\n", "Use this information naturally in your writing:\n">>
    \o MemoryLines(memories)

StyleToMatch ==
    <<"\n\n--- WRITING STYLE TO MATCH ---\n",
      "Study this writing style carefully and replicate it:\n\n">>
    \o ExampleBlocks(examples, 0)
    \o <<"Match this exact tone, vocabulary, sentence structure, and personality.">>

\* buildSystemPrompt with the author-context heading added whatever the
\* number of memories.
BuildSystemPrompt_AlwaysContext ==
    <<humanWritingPrompt>> \o AuthorContext
    \o (IF Len(examples) > 0 THEN StyleToMatch ELSE <<>>)

\* buildSystemPrompt, lines 156-179.
BuildSystemPrompt ==
    <<humanWritingPrompt>>
    \o (IF Len(memories) > 0 THEN AuthorContext ELSE <<>>)
    \o (IF Len(examples) > 0 THEN StyleToMatch ELSE <<>>)

\* The credential a case of the switch reads, with the cerebras case reading
\* the mistral credential.
ApiKeyOf_CopiedCase(provider) ==
    CASE provider = "google" -> settings.googleApiKey
      [] provider = "mistral" -> settings.mistralApiKey
      [] provider = "cerebras" -> settings.mistralApiKey
      [] provider = "zhipu" -> settings.zhipuApiKey

\* The credentials as the constructor left them (line 133), in the place of
\* those the service holds at the first pull.
ApiKeyOf_AtConstruction(provider) ==
    CASE provider = "google" -> DefaultSettings.googleApiKey
      [] provider = "mistral" -> DefaultSettings.mistralApiKey
      [] provider = "cerebras" -> DefaultSettings.cerebrasApiKey
      [] provider = "zhipu" -> DefaultSettings.zhipuApiKey

\* The credential a case of the switch reads: lines 209, 239, 251, 263.
ApiKeyOf(provider) ==
    CASE provider = "google" -> settings.googleApiKey
      [] provider = "mistral" -> settings.mistralApiKey
      [] provider = "cerebras" -> settings.cerebrasApiKey
      [] provider = "zhipu" -> settings.zhipuApiKey

\* The message of the error a case throws for an empty credential.
KeyNotSet(provider) ==
    CASE provider = "google" -> "Google API key not set"
      [] provider = "mistral" -> "Mistral API key not set"
      [] provider = "cerebras" -> "Cerebras API key not set"
      [] provider = "zhipu" -> "Zhipu API key not set"

\* The URL a case passes to streamOpenAICompatResponse.
Endpoint(provider) ==
    CASE provider = "mistral" -> "https://api.mistral.ai/v1/chat/completions"
      [] provider = "cerebras" -> "https://api.cerebras.ai/v1/chat/completions"
      [] provider = "zhipu" -> "https://open.bigmodel.cn/api/paas/v4/chat/completions"

\* The fetch of lines 78-94 with the system turn put after the conversation.
FetchRequest_SystemLast(url, apiKey, model, msgs, prompt) ==
    [kind |-> "fetch",
     url |-> url,
     method |-> "POST",
     headers |-> [ContentType |-> "application/json",
                  Authorization |-> <<"Bearer ", apiKey>>],
     body |-> [model |-> model,
               messages |-> msgs \o <<[role |-> "system", content |-> prompt]>>,
               stream |-> TRUE,
               temperature |-> "0.85",
               max_tokens |-> 8000]]

\* The fetch of lines 78-94.
FetchRequest(url, apiKey, model, msgs, prompt) ==
    [kind |-> "fetch",
     url |-> url,
     method |-> "POST",
     headers |-> [ContentType |-> "application/json",
                  Authorization |-> <<"Bearer ", apiKey>>],
     body |-> [model |-> model,
               messages |-> <<[role |-> "system", content |-> prompt]>> \o msgs,
               stream |-> TRUE,
               temperature |-> "0.85",
               max_tokens |-> 8000]]

\* The SDK request of lines 210-230 with the whole conversation as history.
SdkRequest_FullHistory(apiKey, modelId, msgs, prompt) ==
    [kind |-> "sdk",
     apiKey |-> apiKey,
     model |-> modelId,
     generationConfig |-> [temperature |-> "0.85", topP |-> "0.95", topK |-> 40,
                           maxOutputTokens |-> 8000],
     history |-> [i \in 1..Len(msgs) |->
                     [role |-> IF msgs[i].role = "assistant" THEN "model" ELSE "user",
                      parts |-> <<[text |-> msgs[i].content]>>]],
     message |-> prompt \o <<"\n\n---\n\n">> \o msgs[Len(msgs)].content]

\* The SDK request of lines 210-230: the model, the chat's history and the
\* message sent.
SdkRequest(apiKey, modelId, msgs, prompt) ==
    [kind |-> "sdk",
     apiKey |-> apiKey,
     model |-> modelId,
     generationConfig |-> [temperature |-> "0.85", topP |-> "0.95", topK |-> 40,
                           maxOutputTokens |-> 8000],
     history |-> [i \in 1..(Len(msgs) - 1) |->
                     [role |-> IF msgs[i].role = "assistant" THEN "model" ELSE "user",
                      parts |-> <<[text |-> msgs[i].content]>>]],
     message |-> prompt \o <<"\n\n---\n\n">> \o msgs[Len(msgs)].content]

\* response.ok taken for every status from 200 up.
ResponseOk_NoUpperBound(status) == status >= 200

\* response.ok: the status is in the range 200-299.
ResponseOk(status) == status \in 200..299

\* The check of line 102 left out.
HasReader_Always(resp) == TRUE

\* response.body?.getReader() is there: the response has a body.
HasReader(resp) == resp.hasBody

\* The message of the error of line 98.
ApiError(status, text) == <<"API Error: ", ToString(status), " - ">> \o text

-----------------------------------------------------------------------------
(* The inputs of the service specification. *)

Keys == {"", "key"}

SettingsSpace ==
    [googleApiKey : Keys, mistralApiKey : Keys, cerebrasApiKey : Keys,
     zhipuApiKey : Keys, selectedModel : Identifiers]

MemoryLists ==
    {<<>>,
     <<[id |-> "m1", content |-> <<"I", " ", "c", "o", "d", "e">>]>>}

ExampleLists ==
    {<<>>,
     <<[id |-> "e1", content |-> <<"S", "h", "o", "r", "t", ".">>]>>}

UserTurn == [role |-> "user", content |-> <<"Write about tea">>]
AssistantTurn == [role |-> "assistant", content |-> <<"Tea is old.">>]

Conversations == {<<>>, <<UserTurn>>, <<UserTurn, AssistantTurn, UserTurn>>}

Statuses == {200, 299, 300, 429, 500}

RateLimited == <<"r", "a", "t", "e", " ", "l", "i", "m", "i", "t", "e", "d">>

\* The bodies a response may carry: none, an error text, an event stream.
Bodies ==
    {[hasBody |-> FALSE, bytes |-> <<>>],
     [hasBody |-> TRUE, bytes |-> Utf8Encode(RateLimited)],
     [hasBody |-> TRUE, bytes |-> Terminated(<<LineHi, LineDone>>)]}

\* The chunk texts an SDK stream may deliver.
SdkStreams == {<<>>, <<<<"O", "K">>>>, <<<<"H", "i">>, <<>>, <<"!">>>>}

-----------------------------------------------------------------------------
(* The service's operations. *)

\* updateSettings taking the selected model of its argument and keeping the
\* credentials it has.
UpdateSettings_KeepsKeys ==
    /\ pc \in {"idle", "created"}
    /\ \E s \in SettingsSpace :
          /\ settings' = [settings EXCEPT !.selectedModel = s.selectedModel]
          /\ written' = [written EXCEPT !.settings = s]
    /\ UNCHANGED <<callerVars, reader>>
    /\ UNCHANGED <<memories, examples, messages, pc, binding, systemPrompt, requests,
                   response, stream, pos, pending, buffer, lines, out, exit, err>>
    /\ UNCHANGED <<appVars, modalVars, second>>

\* updateSettings, lines 144-146.  In this specification the configuration
\* changes while no call is running: before a call, or before its first pull.
UpdateSettings ==
    /\ pc \in {"idle", "created"}
    /\ \E s \in SettingsSpace :
          /\ settings' = s
          /\ written' = [written EXCEPT !.settings = s]
    /\ UNCHANGED <<callerVars, reader>>
    /\ UNCHANGED <<memories, examples, messages, pc, binding, systemPrompt, requests,
                   response, stream, pos, pending, buffer, lines, out, exit, err>>
    /\ UNCHANGED <<appVars, modalVars, second>>

\* updateMemories, lines 148-150.
UpdateMemories ==
    /\ pc \in {"idle", "created"}
    /\ \E m \in MemoryLists :
          /\ memories' = m
          /\ written' = [written EXCEPT !.memories = m]
    /\ UNCHANGED <<callerVars, reader>>
    /\ UNCHANGED <<settings, examples, messages, pc, binding, systemPrompt, requests,
                   response, stream, pos, pending, buffer, lines, out, exit, err>>
    /\ UNCHANGED <<appVars, modalVars, second>>

\* updateExamples, lines 152-154.
UpdateExamples ==
    /\ pc \in {"idle", "created"}
    /\ \E e \in ExampleLists :
          /\ examples' = e
          /\ written' = [written EXCEPT !.examples = e]
    /\ UNCHANGED <<callerVars, reader>>
    /\ UNCHANGED <<settings, memories, messages, pc, binding, systemPrompt, requests,
                   response, stream, pos, pending, buffer, lines, out, exit, err>>
    /\ UNCHANGED <<appVars, modalVars, second>>

\* generateStreamingResponse(messages) is called: an async generator is
\* made, and none of its body runs.
GenerateCall ==
    /\ pc = "idle"
    /\ \E conv \in Conversations : messages' = conv
    /\ pc' = "created"
    /\ UNCHANGED <<callerVars, reader>>
    /\ UNCHANGED <<settings, memories, examples, binding, systemPrompt, requests,
                   response, stream, pos, pending, buffer, lines, out, exit, err>>
    /\ UNCHANGED written
    /\ UNCHANGED <<appVars, modalVars, second>>

\* The generator throwing a new error that wraps e.
Throw_Wrapped(e) ==
    /\ pc' = "threw"
    /\ exit' = "error"
    /\ err' = <<"Generation failed: ">> \o e

\* The generator throws e.
Throw(e) ==
    /\ pc' = "threw"
    /\ exit' = "error"
    /\ err' = e

\* The first pull: lines 204-205, then the case of the provider up to its
\* first await (the fetch of line 78, or sendMessageStream of line 230).
FirstPull ==
    /\ pc = "created"
    /\ LET cfg == GetModelConfig(settings.selectedModel)
           prompt == BuildSystemPrompt
           apiKey == ApiKeyOf(cfg.provider)
       IN  /\ binding' = cfg
           /\ systemPrompt' = prompt
           /\ IF apiKey = ""
              THEN Throw(<<KeyNotSet(cfg.provider)>>) /\ UNCHANGED requests
              ELSE IF cfg.provider = "google"
              THEN IF messages = <<>>
                   THEN \* lastMessage is undefined: lastMessage.content throws
                        Throw(<<"TypeError">>) /\ UNCHANGED requests
                   ELSE /\ requests' = Append(requests,
                               SdkRequest(apiKey, cfg.modelId, messages, prompt))
                        /\ pc' = "sdk-send"
                        /\ UNCHANGED <<exit, err>>
              ELSE /\ requests' = Append(requests,
                          FetchRequest(Endpoint(cfg.provider), apiKey, cfg.modelId,
                                       messages, prompt))
                   /\ pc' = "fetch"
                   /\ UNCHANGED <<exit, err>>
    /\ UNCHANGED <<callerVars, reader>>
    /\ UNCHANGED <<settings, memories, examples, messages, response, stream, pos,
                   pending, buffer, lines, out>>
    /\ UNCHANGED written
    /\ UNCHANGED <<appVars, modalVars, second>>

\* fetch resolves with a response: lines 96-105, up to the first reader.read().
FetchResolve ==
    /\ pc = "fetch"
    /\ \E status \in Statuses, body \in Bodies :
          LET resp == [status |-> status, hasBody |-> body.hasBody, bytes |-> body.bytes]
          IN  /\ response' = <<resp>>
              /\ IF ~ResponseOk(resp.status)
                 THEN \* response.text() reads the body, if any, to its end
                      /\ Throw(ApiError(resp.status, Utf8Decode(resp.bytes).text))
                      /\ reader' = IF resp.hasBody THEN "closed" ELSE reader
                      /\ UNCHANGED stream
                 ELSE IF ~HasReader(resp)
                 THEN Throw(<<"No response body">>) /\ UNCHANGED <<stream, reader>>
                 ELSE /\ stream' = resp.bytes
                      /\ reader' = "open"
                      /\ pc' = "read"
                      /\ UNCHANGED <<exit, err>>
    /\ UNCHANGED callerVars
    /\ UNCHANGED <<settings, memories, examples, messages, binding, systemPrompt,
                   requests, pos, pending, buffer, lines, out>>
    /\ UNCHANGED written
    /\ UNCHANGED <<appVars, modalVars, second>>

\* A rejected fetch answered by the same fetch once more.
FetchReject_Retries ==
    /\ pc = "fetch"
    /\ requests' = Append(requests, requests[Len(requests)])
    /\ UNCHANGED <<callerVars, reader, written>>
    /\ UNCHANGED <<settings, memories, examples, messages, pc, binding, systemPrompt,
                   response, stream, pos, pending, buffer, lines, out, exit, err>>
    /\ UNCHANGED <<appVars, modalVars, second>>

\* fetch rejects: the network failed.
FetchReject ==
    /\ pc = "fetch"
    /\ Throw(<<"TypeError: Failed to fetch">>)
    /\ UNCHANGED <<callerVars, reader>>
    /\ UNCHANGED <<svcVars, stream, pos, pending, buffer, lines, out>>
    /\ UNCHANGED written
    /\ UNCHANGED <<appVars, modalVars, second>>

\* sendMessageStream resolves: result.stream is there, line 232 asks for its
\* first chunk.
SdkResolve ==
    /\ pc = "sdk-send"
    /\ \E chunks \in SdkStreams : stream' = chunks
    /\ pc' = "sdk-next"
    /\ UNCHANGED <<callerVars, reader>>
    /\ UNCHANGED <<svcVars, pos, pending, buffer, lines, out, exit, err>>
    /\ UNCHANGED written
    /\ UNCHANGED <<appVars, modalVars, second>>

\* sendMessageStream rejects, or the stream fails on its next chunk.
SdkReject ==
    /\ pc \in {"sdk-send", "sdk-next"}
    /\ Throw(<<"GoogleGenerativeAIError">>)
    /\ UNCHANGED <<callerVars, reader>>
    /\ UNCHANGED <<svcVars, stream, pos, pending, buffer, lines, out>>
    /\ UNCHANGED written
    /\ UNCHANGED <<appVars, modalVars, second>>

\* Line 233 yielding chunk.text() only when it is not empty.
SdkChunk_SkipsEmpty ==
    /\ pc = "sdk-next"
    /\ pos < Len(stream)
    /\ pos' = pos + 1
    /\ IF stream[pos + 1] = <<>>
       THEN UNCHANGED <<out, pc>>
       ELSE /\ out' = Append(out, JStr(stream[pos + 1]))
            /\ pc' = "yielded"
    /\ UNCHANGED <<callerVars, reader, written>>
    /\ UNCHANGED <<svcVars, stream, pending, buffer, lines, exit, err>>
    /\ UNCHANGED <<appVars, modalVars, second>>

\* The stream delivers its next chunk: line 233 yields chunk.text().
SdkChunk ==
    /\ pc = "sdk-next"
    /\ pos < Len(stream)
    /\ out' = Append(out, JStr(stream[pos + 1]))
    /\ pos' = pos + 1
    /\ pc' = "yielded"
    /\ UNCHANGED <<callerVars, reader>>
    /\ UNCHANGED <<svcVars, stream, pending, buffer, lines, exit, err>>
    /\ UNCHANGED written
    /\ UNCHANGED <<appVars, modalVars, second>>

\* The stream ends: line 235.
SdkEnd ==
    /\ pc = "sdk-next"
    /\ pos = Len(stream)
    /\ pc' = "returned"
    /\ exit' = "closed"
    /\ UNCHANGED <<callerVars, reader>>
    /\ UNCHANGED <<svcVars, stream, pos, pending, buffer, lines, out, err>>
    /\ UNCHANGED written
    /\ UNCHANGED <<appVars, modalVars, second>>

\* The pull after a fragment of the SDK's stream reading the configuration
\* again.
ResumeSdk_Rereads ==
    /\ pc = "yielded"
    /\ binding.provider = "google"
    /\ pc' = "sdk-next"
    /\ binding' = GetModelConfig(settings.selectedModel)
    /\ systemPrompt' = BuildSystemPrompt
    /\ UNCHANGED <<callerVars, reader, written>>
    /\ UNCHANGED <<settings, memories, examples, messages, requests, response, stream,
                   pos, pending, buffer, lines, out, exit, err>>
    /\ UNCHANGED <<appVars, modalVars, second>>

\* The consumer pulls again after a fragment of the SDK's stream.
ResumeSdk ==
    /\ pc = "yielded"
    /\ binding.provider = "google"
    /\ pc' = "sdk-next"
    /\ UNCHANGED <<callerVars, reader>>
    /\ UNCHANGED <<svcVars, stream, pos, pending, buffer, lines, out, exit, err>>
    /\ UNCHANGED written
    /\ UNCHANGED <<appVars, modalVars, second>>

\* reader.read() rejects: the connection failed while the body was being
\* read.  Line 108 throws what the reader threw.
ReadError ==
    /\ pc = "read"
    /\ Throw(<<"TypeError: network error">>)
    /\ reader' = "errored"
    /\ UNCHANGED callerVars
    /\ UNCHANGED <<svcVars, stream, pos, pending, buffer, lines, out>>
    /\ UNCHANGED written
    /\ UNCHANGED <<appVars, modalVars, second>>

\* The consumer leaves its for await loop after a fragment (break): the loop
\* calls return() on the generator, which ends at the yield where it stands.
\* No finally block runs, for lines 71-130 and 201-274 have none.
Abandon ==
    /\ pc = "yielded"
    /\ pc' = "returned"
    /\ exit' = "abandoned"
    /\ UNCHANGED <<callerVars, reader>>
    /\ UNCHANGED <<svcVars, stream, pos, pending, buffer, lines, out, err>>
    /\ UNCHANGED written
    /\ UNCHANGED <<appVars, modalVars, second>>

NoBinding == [provider |-> "none", modelId |-> "none"]

\* The consumer is done with a generator that has ended.
Release ==
    /\ pc \in {"returned", "threw"}
    /\ pc' = "idle"
    /\ messages' = <<>>
    /\ binding' = NoBinding
    /\ systemPrompt' = <<>>
    /\ requests' = <<>>
    /\ response' = <<>>
    /\ stream' = <<>>
    /\ pos' = 0
    /\ pending' = <<>>
    /\ buffer' = <<>>
    /\ lines' = <<>>
    /\ out' = <<>>
    /\ exit' = "none"
    /\ err' = <<>>
    /\ reader' = "none"
    /\ UNCHANGED <<settings, memories, examples, callerVars>>
    /\ UNCHANGED written
    /\ UNCHANGED <<appVars, modalVars, second>>

-----------------------------------------------------------------------------
(* The service: a new AiService, then calls one after the other. *)

\* No second call: what the fields of a call are before it is made.
NoCall ==
    [pc |-> "idle", messages |-> <<>>, binding |-> NoBinding, systemPrompt |-> <<>>,
     requests |-> <<>>, response |-> <<>>, stream |-> <<>>, pos |-> 0,
     pending |-> <<>>, buffer |-> <<>>, lines |-> <<>>, out |-> <<>>,
     exit |-> "none", err |-> <<>>, reader |-> "none"]

\* App with no article and the settings the service holds, SettingsModal as
\* it mounts (line 63: useState(settings)), no test and no second call.
UiInit ==
    /\ articles = <<>>
    /\ currentArticle = <<>>
    /\ onUpdateArticle = <<>>
    /\ appSettings = settings
    /\ localSettings = settings
    /\ testStatus = "idle"
    /\ testError = <<>>
    /\ testResponse = <<>>
    /\ originalSettings = <<>>
    /\ second = NoCall

Init ==
    /\ settings = DefaultSettings
    /\ memories = <<>>
    /\ examples = <<>>
    /\ messages = <<>>
    /\ pc = "idle"
    /\ binding = NoBinding
    /\ systemPrompt = <<>>
    /\ requests = <<>>
    /\ response = <<>>
    /\ stream = <<>>
    /\ pos = 0
    /\ pending = <<>>
    /\ buffer = <<>>
    /\ lines = <<>>
    /\ out = <<>>
    /\ exit = "none"
    /\ err = <<>>
    /\ reader = "none"
    /\ isGenerating = FALSE
    /\ streamedContent = <<>>
    /\ error = <<>>
    /\ article = <<>>
    /\ written = [settings |-> settings, memories |-> memories, examples |-> examples]
    /\ UiInit

Next ==
    \/ UpdateSettings
    \/ UpdateMemories
    \/ UpdateExamples
    \/ GenerateCall
    \/ FirstPull
    \/ FetchResolve
    \/ FetchReject
    \/ SdkResolve
    \/ SdkReject
    \/ SdkChunk
    \/ SdkEnd
    \/ ResumeSdk
    \/ ReadBlock
    \/ ReadDone
    \/ Resume
    \/ ReadError
    \/ Abandon
    \/ Release

Spec == Init /\ [][Next]_vars

-----------------------------------------------------------------------------
(* The decoder on its own: a Mistral call whose fetch has resolved with a  *)
(* successful response, at its first reader.read(), for any stream.        *)

DecoderSettings ==
    [DefaultSettings EXCEPT !.mistralApiKey = "key",
                            !.selectedModel = "mistral-large-latest"]

InitDecoder ==
    /\ settings = DecoderSettings
    /\ memories = <<>>
    /\ examples = <<>>
    /\ messages = <<UserTurn>>
    /\ binding = [provider |-> "mistral", modelId |-> "mistral-large-latest"]
    /\ systemPrompt = <<humanWritingPrompt>>
    /\ requests = <<FetchRequest(Endpoint("mistral"), "key", "mistral-large-latest",
                                 <<UserTurn>>, <<humanWritingPrompt>>)>>
    /\ stream \in Streams
    /\ response = <<[status |-> 200, hasBody |-> TRUE, bytes |-> stream]>>
    /\ pos = 0
    /\ pending = <<>>
    /\ buffer = <<>>
    /\ lines = <<>>
    /\ out = <<>>
    /\ pc = "read"
    /\ exit = "none"
    /\ err = <<>>
    /\ reader = "open"
    /\ isGenerating = FALSE
    /\ streamedContent = <<>>
    /\ error = <<>>
    /\ article = <<>>
    /\ written = [settings |-> settings, memories |-> memories, examples |-> examples]
    /\ UiInit

NextDecoder == ReadBlock \/ ReadDone \/ Resume

SpecDecoder == InitDecoder /\ [][NextDecoder]_vars

-----------------------------------------------------------------------------
(* The prompt builder on its own: a service whose memories and examples    *)
(* are any lists of up to MaxItems items, and a call up to its first pull. *)

\* Items in a list of memories or of examples of this specification.
MaxItems == 2

MemoryPool ==
    {[id |-> "m1", content |-> <<"I", " ", "c", "o", "d", "e">>],
     [id |-> "m2", content |-> <<"T", "e", "a">>]}

\* An example shorter than the slice, one of exactly its length, and one of
\* one character more, whose last character is the only "Z" of the model.
ShortExample == [id |-> "e1", content |-> <<"S", "h", "o", "r", "t", ".">>]
ExactExample == [id |-> "e2", content |-> [i \in 1..600 |-> "b"]]
LongExample == [id |-> "e3", content |-> [i \in 1..601 |-> IF i <= 600 THEN "a" ELSE "Z"]]

ExamplePool == {ShortExample, ExactExample, LongExample}

InitPrompt ==
    /\ settings = DecoderSettings
    /\ memories \in UNION {[1..n -> MemoryPool] : n \in 0..MaxItems}
    /\ examples \in UNION {[1..n -> ExamplePool] : n \in 0..MaxItems}
    /\ messages = <<>>
    /\ pc = "idle"
    /\ binding = NoBinding
    /\ systemPrompt = <<>>
    /\ requests = <<>>
    /\ response = <<>>
    /\ stream = <<>>
    /\ pos = 0
    /\ pending = <<>>
    /\ buffer = <<>>
    /\ lines = <<>>
    /\ out = <<>>
    /\ exit = "none"
    /\ err = <<>>
    /\ reader = "none"
    /\ isGenerating = FALSE
    /\ streamedContent = <<>>
    /\ error = <<>>
    /\ article = <<>>
    /\ written = [settings |-> settings, memories |-> memories, examples |-> examples]
    /\ UiInit

NextPrompt == GenerateCall \/ FirstPull

SpecPrompt == InitPrompt /\ [][NextPrompt]_vars

-----------------------------------------------------------------------------
(* The service with its configuration updated at any moment: the handlers  *)
(* that call updateSettings, updateMemories and updateExamples run between *)
(* any two steps of a call, for every await of the generator gives way to  *)
(* them.                                                                   *)

GoogleSettings == [DefaultSettings EXCEPT !.googleApiKey = "key"]

LiveSettings ==
    {DecoderSettings,
     [DecoderSettings EXCEPT !.mistralApiKey = "other"],
     GoogleSettings}

\* updateSettings, lines 144-146, whatever the call is doing.
UpdateSettingsLive ==
    /\ \E s \in LiveSettings :
          /\ settings' = s
          /\ written' = [written EXCEPT !.settings = s]
    /\ UNCHANGED <<callerVars, reader>>
    /\ UNCHANGED <<memories, examples, messages, pc, binding, systemPrompt, requests,
                   response, stream, pos, pending, buffer, lines, out, exit, err>>
    /\ UNCHANGED <<appVars, modalVars, second>>

\* updateMemories, lines 148-150, whatever the call is doing.
UpdateMemoriesLive ==
    /\ \E m \in MemoryLists :
          /\ memories' = m
          /\ written' = [written EXCEPT !.memories = m]
    /\ UNCHANGED <<callerVars, reader>>
    /\ UNCHANGED <<settings, examples, messages, pc, binding, systemPrompt, requests,
                   response, stream, pos, pending, buffer, lines, out, exit, err>>
    /\ UNCHANGED <<appVars, modalVars, second>>

\* updateExamples, lines 152-154, whatever the call is doing.
UpdateExamplesLive ==
    /\ \E e \in ExampleLists :
          /\ examples' = e
          /\ written' = [written EXCEPT !.examples = e]
    /\ UNCHANGED <<callerVars, reader>>
    /\ UNCHANGED <<settings, memories, messages, pc, binding, systemPrompt, requests,
                   response, stream, pos, pending, buffer, lines, out, exit, err>>
    /\ UNCHANGED <<appVars, modalVars, second>>

NextLive ==
    \/ UpdateSettingsLive
    \/ UpdateMemoriesLive
    \/ UpdateExamplesLive
    \/ GenerateCall
    \/ FirstPull
    \/ FetchResolve
    \/ FetchReject
    \/ SdkResolve
    \/ SdkReject
    \/ SdkChunk
    \/ SdkEnd
    \/ ResumeSdk
    \/ ReadBlock
    \/ ReadDone
    \/ Resume
    \/ ReadError
    \/ Abandon
    \/ Release

SpecLive == Init /\ [][NextLive]_vars

-----------------------------------------------------------------------------
(* The article generator, src/src/components/ArticleGenerator.tsx: its     *)
(* Generate button calls handleGenerate, which consumes one call of the    *)
(* service.  The component's memories and examples are empty here.         *)

Topics == {"tea", "jazz"}

\* The prompt of lines 170-205, for a topic: its pieces, shortened.
ArticlePrompt(topic) ==
    <<"Write a complete Medium article about: \"", topic, "\"\n\nREQUIREMENTS: ...",
      "\n\nWrite the complete article now.">>

\* App.tsx line 50: one of the four credentials is set.
hasApiKey ==
    \/ appSettings.googleApiKey # ""
    \/ appSettings.mistralApiKey # ""
    \/ appSettings.cerebrasApiKey # ""
    \/ appSettings.zhipuApiKey # ""

\* fullContent += chunk: the text a fragment adds to a string.
ChunkText(v) ==
    CASE v.t = "string" -> v.s
      [] v.t = "number" -> <<ToString(v.n)>>

Whitespace == {" ", NL}

\* text.trim()
Trim(text) ==
    LET inked == {i \in 1..Len(text) : text[i] \notin Whitespace}
    IN  IF inked = {} THEN <<>>
        ELSE SubSeq(text, CHOOSE i \in inked : \A j \in inked : i <= j,
                          CHOOSE i \in inked : \A j \in inked : j <= i)

\* The words the catch block looks for, in the pieces of the messages of
\* this model that hold them.
PieceWords ==
    {<<"Google API key not set", "API key">>,
     <<"Mistral API key not set", "API key">>,
     <<"Cerebras API key not set", "API key">>,
     <<"Zhipu API key not set", "API key">>,
     <<"TypeError: Failed to fetch", "fetch">>,
     <<"TypeError: network error", "network">>}

WordChars ==
    [w \in {"API key", "quota", "limit", "network", "fetch"} |->
        CASE w = "API key" -> <<"A", "P", "I", " ", "k", "e", "y">>
          [] w = "quota" -> <<"q", "u", "o", "t", "a">>
          [] w = "limit" -> <<"l", "i", "m", "i", "t">>
          [] w = "network" -> <<"n", "e", "t", "w", "o", "r", "k">>
          [] w = "fetch" -> <<"f", "e", "t", "c", "h">>]

\* errorMessage.includes(word): the word is in a piece of the message, or in
\* the characters of the body text the message carries.
Includes(message, word) ==
    \/ \E i \in 1..Len(message) : <<message[i], word>> \in PieceWords
    \/ \E i \in 1..Len(message) :
          /\ i + Len(WordChars[word]) - 1 <= Len(message)
          /\ SubSeq(message, i, i + Len(WordChars[word]) - 1) = WordChars[word]

\* The message the catch block shows, lines 263-273.
ErrorShown(message) ==
    IF Includes(message, "API key")
    THEN <<"Invalid API key. Check settings and try again.">>
    ELSE IF Includes(message, "quota") \/ Includes(message, "limit")
    THEN <<"API quota exceeded. Check your plan or try different model.">>
    ELSE IF Includes(message, "network") \/ Includes(message, "fetch")
    THEN <<"Network error. Check internet and try again.">>
    ELSE <<"Generation failed: ">> \o message

\* The generator of the call is dropped: nothing of the call is left.
CallOver ==
    /\ pc' = "idle"
    /\ messages' = <<>>
    /\ binding' = NoBinding
    /\ systemPrompt' = <<>>
    /\ requests' = <<>>
    /\ response' = <<>>
    /\ stream' = <<>>
    /\ pos' = 0
    /\ pending' = <<>>
    /\ buffer' = <<>>
    /\ lines' = <<>>
    /\ out' = <<>>
    /\ exit' = "none"
    /\ err' = <<>>
    /\ reader' = "none"

\* An event of the page is handled when no handler runs: not between the
\* click on Generate and the first pull of its generator, which the click's
\* own task makes (pc = "created").

\* { ...old, ...updates }
Merge(old, updates) ==
    [f \in DOMAIN old \cup DOMAIN updates |->
        IF f \in DOMAIN updates THEN updates[f] ELSE old[f]]

\* What generateId() may return.  Its source (utils/helpers) is not part of
\* src/: any of these, one already in use or not.
GeneratedIds == {"a1", "a2"}

\* The article of App.tsx lines 151-158 and 197-201 (the dates left out).
EmptyArticle(id) == [id |-> id, title |-> "", subtitle |-> <<>>, content |-> <<>>]

\* handleNewArticle, App.tsx lines 150-175.
HandleNewArticle ==
    /\ pc # "created"
    /\ Len(articles) < MaxArticles
    /\ \E id \in GeneratedIds :
          /\ articles' = <<EmptyArticle(id)>> \o articles
          /\ currentArticle' = <<EmptyArticle(id)>>
    /\ UNCHANGED <<onUpdateArticle, appSettings, modalVars, second, callerVars, written>>
    /\ UNCHANGED <<svcVars, pc, stream, pos, pending, buffer, lines, out, exit, err,
                   reader>>

\* handleSelectArticle, App.tsx lines 177-181, for an article of the list the
\* sidebar shows.
HandleSelectArticle ==
    /\ pc # "created"
    /\ \E i \in 1..Len(articles) : currentArticle' = <<articles[i]>>
    /\ UNCHANGED <<articles, onUpdateArticle, appSettings, modalVars, second,
                   callerVars, written>>
    /\ UNCHANGED <<svcVars, pc, stream, pos, pending, buffer, lines, out, exit, err,
                   reader>>

\* handleDeleteArticle, App.tsx lines 183-192, for an article of the list the
\* sidebar shows.
HandleDeleteArticle ==
    /\ pc # "created"
    /\ \E i \in 1..Len(articles) :
          LET id == articles[i].id
              Kept(a) == a.id # id
              remaining == SelectSeq(articles, Kept)
          IN  /\ articles' = remaining
              /\ currentArticle' =
                    IF currentArticle # <<>> /\ currentArticle[1].id = id
                    THEN IF Len(remaining) > 0 THEN <<remaining[1]>> ELSE <<>>
                    ELSE currentArticle
    /\ UNCHANGED <<onUpdateArticle, appSettings, modalVars, second, callerVars, written>>
    /\ UNCHANGED <<svcVars, pc, stream, pos, pending, buffer, lines, out, exit, err,
                   reader>>

\* handleUpdateArticle, App.tsx lines 194-221, of the render in which
\* currentArticle was closed.
HandleUpdateArticle(closed, updates) ==
    IF closed = <<>>
    THEN \E id \in GeneratedIds :
            LET newArticle == Merge(EmptyArticle(id), updates)
            IN  /\ articles' = <<newArticle>> \o articles
                /\ currentArticle' = <<newArticle>>
    ELSE LET updatedArticle == Merge(closed[1], updates)
         IN  /\ currentArticle' = <<updatedArticle>>
             /\ articles' = [i \in 1..Len(articles) |->
                                IF articles[i].id = updatedArticle.id
                                THEN updatedArticle ELSE articles[i]]

\* The welcome screen with the Generate button is what ArticleGenerator
\* renders: ArticleGenerator.tsx line 358.
WelcomeScreen ==
    IF currentArticle = <<>> THEN TRUE
    ELSE currentArticle[1].content = <<>> /\ streamedContent = <<>>

\* The title input of the article view, ArticleGenerator.tsx line 626: a key
\* typed calls the onUpdateArticle of the render on screen.
EditTitle ==
    /\ pc # "created"
    /\ ~WelcomeScreen
    /\ HandleUpdateArticle(currentArticle, [title |-> "Edited"])
    /\ UNCHANGED <<onUpdateArticle, appSettings, modalVars, second, callerVars, written>>
    /\ UNCHANGED <<svcVars, pc, stream, pos, pending, buffer, lines, out, exit, err,
                   reader>>

\* handleGenerate, lines 130-211: a click on the Generate button, which is
\* enabled with a topic, a credential and no generation running (line 489),
\* up to the call of generateStreamingResponse.
\* A click is handled when no other click's task is at work (the first pull
\* of a generator is made by the task of the click that made it).
HandleGenerate ==
    /\ pc = "idle"
    /\ second.pc # "created"
    /\ WelcomeScreen
    /\ ~isGenerating
    /\ hasApiKey
    /\ onUpdateArticle' = currentArticle
    /\ UNCHANGED <<articles, currentArticle>>
    /\ \E topic \in Topics :
          messages' = <<[role |-> "user", content |-> ArticlePrompt(topic)]>>
    /\ isGenerating' = TRUE
    /\ streamedContent' = <<>>
    /\ error' = <<>>
    /\ pc' = "created"
    /\ article' = <<>>
    /\ UNCHANGED <<settings, memories, examples, binding, systemPrompt, requests,
                   response, stream, pos, pending, buffer, lines, out, exit, err,
                   reader, written>>
    /\ UNCHANGED <<appSettings, modalVars, second>>

\* The body of the for await loop, lines 213-216, for the fragment just
\* yielded, and the loop's next pull.
LoopBody ==
    /\ pc = "yielded"
    /\ isGenerating
    /\ streamedContent' = streamedContent \o ChunkText(out[Len(out)])
    /\ IF binding.provider = "google"
       THEN pc' = "sdk-next" /\ UNCHANGED <<lines, out, exit, err>>
       ELSE AfterLines(lines)
    /\ UNCHANGED <<isGenerating, error, article, reader, written>>
    /\ UNCHANGED <<svcVars, stream, pos, pending, buffer>>
    /\ UNCHANGED <<appVars, modalVars, second>>

\* The generator has ended: lines 218-259 and the finally block.  fullContent
\* is what streamedContent was last set to.  The texts of this model have no
\* line that starts with '#', '*' or '_', so that lines 224-248 find neither
\* title nor subtitle and leave startIndex 0.
HandleDone ==
    /\ pc = "returned"
    /\ isGenerating
    /\ LET updates == [title |-> messages[1].content[2],
                       subtitle |-> <<>>,
                       content |-> Trim(streamedContent),
                       topic |-> messages[1].content[2]]
       IN  /\ article' = Append(article, updates)
           /\ HandleUpdateArticle(onUpdateArticle, updates)
    /\ onUpdateArticle' = <<>>
    /\ isGenerating' = FALSE
    /\ CallOver
    /\ UNCHANGED <<settings, memories, examples, streamedContent, error, written>>
    /\ UNCHANGED <<appSettings, modalVars, second>>

\* The catch block, lines 261-275, with no finally block after it.
HandleCatch_NoFinally ==
    /\ pc = "threw"
    /\ isGenerating
    /\ error' = ErrorShown(err)
    /\ streamedContent' = <<>>
    /\ CallOver
    /\ onUpdateArticle' = <<>>
    /\ UNCHANGED <<articles, currentArticle>>
    /\ UNCHANGED <<settings, memories, examples, isGenerating, article, written>>
    /\ UNCHANGED <<appSettings, modalVars, second>>

\* The generator has thrown: the catch block, lines 261-275, and the finally
\* block.
HandleCatch ==
    /\ pc = "threw"
    /\ isGenerating
    /\ error' = ErrorShown(err)
    /\ streamedContent' = <<>>
    /\ isGenerating' = FALSE
    /\ CallOver
    /\ onUpdateArticle' = <<>>
    /\ UNCHANGED <<articles, currentArticle>>
    /\ UNCHANGED <<settings, memories, examples, article, written>>
    /\ UNCHANGED <<appSettings, modalVars, second>>

ArticleSettings ==
    {DecoderSettings, GoogleSettings, [DefaultSettings EXCEPT !.mistralApiKey = "key"]}

InitArticle ==
    /\ settings \in ArticleSettings
    /\ memories = <<>>
    /\ examples = <<>>
    /\ messages = <<>>
    /\ pc = "idle"
    /\ binding = NoBinding
    /\ systemPrompt = <<>>
    /\ requests = <<>>
    /\ response = <<>>
    /\ stream = <<>>
    /\ pos = 0
    /\ pending = <<>>
    /\ buffer = <<>>
    /\ lines = <<>>
    /\ out = <<>>
    /\ exit = "none"
    /\ err = <<>>
    /\ reader = "none"
    /\ isGenerating = FALSE
    /\ streamedContent = <<>>
    /\ error = <<>>
    /\ article = <<>>
    /\ written = [settings |-> settings, memories |-> memories, examples |-> examples]
    /\ UiInit

NextArticle ==
    \/ HandleGenerate
    \/ FirstPull
    \/ FetchResolve
    \/ FetchReject
    \/ SdkResolve
    \/ SdkReject
    \/ SdkChunk
    \/ SdkEnd
    \/ ReadBlock
    \/ ReadDone
    \/ ReadError
    \/ LoopBody
    \/ HandleDone
    \/ HandleCatch

SpecArticle == InitArticle /\ [][NextArticle]_vars

\* The code after the for await loop and the catch block run as soon as the
\* generator has ended or thrown: they are the continuation of the awaited
\* next(), which the event loop runs.
SpecArticleFair == SpecArticle /\ WF_vars(HandleDone) /\ WF_vars(HandleCatch)

-----------------------------------------------------------------------------
(* App and its articles, src/src/App.tsx, with a Google credential and no  *)
(* article stored: the events of the sidebar and of the article view, and  *)
(* the runs of handleGenerate.                                             *)

\* App with a Google credential saved, the article generator and the
\* settings modal.
InitUi ==
    /\ settings = GoogleSettings
    /\ memories = <<>>
    /\ examples = <<>>
    /\ messages = <<>>
    /\ pc = "idle"
    /\ binding = NoBinding
    /\ systemPrompt = <<>>
    /\ requests = <<>>
    /\ response = <<>>
    /\ stream = <<>>
    /\ pos = 0
    /\ pending = <<>>
    /\ buffer = <<>>
    /\ lines = <<>>
    /\ out = <<>>
    /\ exit = "none"
    /\ err = <<>>
    /\ reader = "none"
    /\ isGenerating = FALSE
    /\ streamedContent = <<>>
    /\ error = <<>>
    /\ article = <<>>
    /\ written = [settings |-> settings, memories |-> memories, examples |-> examples]
    /\ UiInit

NextApp ==
    \/ HandleNewArticle
    \/ HandleSelectArticle
    \/ HandleDeleteArticle
    \/ EditTitle
    \/ HandleGenerate
    \/ FirstPull
    \/ SdkResolve
    \/ SdkReject
    \/ SdkChunk
    \/ SdkEnd
    \/ LoopBody
    \/ HandleDone
    \/ HandleCatch

SpecApp == InitUi /\ [][NextApp]_vars

-----------------------------------------------------------------------------
(* A call made on a service just constructed and not yet pulled: what is   *)
(* written to the service after the call, and the one call to its end.     *)

InitLazy ==
    /\ settings = DefaultSettings
    /\ memories = <<>>
    /\ examples = <<>>
    /\ messages \in Conversations
    /\ pc = "created"
    /\ binding = NoBinding
    /\ systemPrompt = <<>>
    /\ requests = <<>>
    /\ response = <<>>
    /\ stream = <<>>
    /\ pos = 0
    /\ pending = <<>>
    /\ buffer = <<>>
    /\ lines = <<>>
    /\ out = <<>>
    /\ exit = "none"
    /\ err = <<>>
    /\ reader = "none"
    /\ isGenerating = FALSE
    /\ streamedContent = <<>>
    /\ error = <<>>
    /\ article = <<>>
    /\ written = [settings |-> settings, memories |-> memories, examples |-> examples]
    /\ UiInit

NextLazy ==
    \/ UpdateSettings
    \/ UpdateMemories
    \/ UpdateExamples
    \/ FirstPull
    \/ FetchResolve
    \/ FetchReject
    \/ SdkResolve
    \/ SdkReject
    \/ SdkChunk
    \/ SdkEnd
    \/ ResumeSdk
    \/ ReadBlock
    \/ ReadDone
    \/ Resume
    \/ ReadError
    \/ Abandon

SpecLazy == InitLazy /\ [][NextLazy]_vars

-----------------------------------------------------------------------------
(* A second generator of generateStreamingResponse on the same service.    *)
(* Its locals (lines 71-130 and 201-274) are the fields of the record      *)
(* second; the service's settings, memories and examples are the one       *)
(* service's.  Each operator is the step of the generator on a record c of *)
(* its locals.                                                             *)

\* The generator throws e.
CallThrow(c, e) == [c EXCEPT !.pc = "threw", !.exit = "error", !.err = e]

\* The generator after running the for loop of lines 115-128 over ls.
CallAfterLines(c, ls) ==
    LET r == RunLines(ls)
        d == [c EXCEPT !.lines = r.rest]
    IN  CASE r.kind = "yield" ->
                 [d EXCEPT !.out = Append(c.out, r.content), !.pc = "yielded"]
          [] r.kind = "return" -> [d EXCEPT !.pc = "returned", !.exit = "sentinel"]
          [] r.kind = "throw" ->
                 [d EXCEPT !.pc = "threw", !.exit = "error", !.err = <<"SyntaxError">>]
          [] OTHER -> [d EXCEPT !.pc = "read"]

\* reader.read() resolves with a block of k bytes: lines 108-113, then the
\* for loop up to its first yield.
CallReadBlock(c, k) ==
    LET value == SubSeq(c.stream, c.pos + 1, c.pos + k)
        d == Utf8Decode(c.pending \o value)
        all == Split(c.buffer \o d.text)
    IN  CallAfterLines([c EXCEPT !.pos = c.pos + k,
                                 !.pending = d.held,
                                 !.buffer = PopOrEmpty(all)],
                       Front(all))

\* The pull after a fragment: the for loop of lines 115-128 goes on, or
\* line 232 asks the SDK's stream for its next chunk.
CallResume(c) ==
    IF c.binding.provider = "google" THEN [c EXCEPT !.pc = "sdk-next"]
    ELSE CallAfterLines(c, c.lines)

\* What the second call leaves alone.
SecondFrame ==
    /\ UNCHANGED <<appVars, modalVars, callerVars, written>>
    /\ UNCHANGED <<svcVars, pc, stream, pos, pending, buffer, lines, out, exit, err,
                   reader>>

\* generateStreamingResponse(messages) called a second time, line 201, with
\* another conversation than the first call's.
SecondCall ==
    /\ second.pc = "idle"
    /\ \E conv \in {<<UserTurn, AssistantTurn, UserTurn>>} :
          second' = [NoCall EXCEPT !.pc = "created", !.messages = conv]
    /\ SecondFrame

\* The first pull: lines 204-205 and the case of the provider up to its first
\* await.
SecondFirstPull ==
    /\ second.pc = "created"
    /\ LET cfg == GetModelConfig(settings.selectedModel)
           prompt == BuildSystemPrompt
           apiKey == ApiKeyOf(cfg.provider)
           d == [second EXCEPT !.binding = cfg, !.systemPrompt = prompt]
       IN  second' =
             IF apiKey = "" THEN CallThrow(d, <<KeyNotSet(cfg.provider)>>)
             ELSE IF cfg.provider = "google"
             THEN IF second.messages = <<>>
                  THEN CallThrow(d, <<"TypeError">>)
                  ELSE [d EXCEPT !.requests =
                                    Append(second.requests,
                                           SdkRequest(apiKey, cfg.modelId,
                                                      second.messages, prompt)),
                                 !.pc = "sdk-send"]
             ELSE [d EXCEPT !.requests =
                               Append(second.requests,
                                      FetchRequest(Endpoint(cfg.provider), apiKey,
                                                   cfg.modelId, second.messages, prompt)),
                            !.pc = "fetch"]
    /\ SecondFrame

\* fetch resolves with a response: lines 96-105.
SecondFetchResolve ==
    /\ second.pc = "fetch"
    /\ \E status \in Statuses, body \in Bodies :
          LET resp == [status |-> status, hasBody |-> body.hasBody, bytes |-> body.bytes]
              d == [second EXCEPT !.response = <<resp>>]
          IN  second' =
                IF ~ResponseOk(resp.status)
                THEN [CallThrow(d, ApiError(resp.status, Utf8Decode(resp.bytes).text))
                         EXCEPT !.reader = IF resp.hasBody THEN "closed"
                                           ELSE second.reader]
                ELSE IF ~HasReader(resp)
                THEN CallThrow(d, <<"No response body">>)
                ELSE [d EXCEPT !.stream = resp.bytes, !.reader = "open", !.pc = "read"]
    /\ SecondFrame

SecondFetchReject ==
    /\ second.pc = "fetch"
    /\ second' = CallThrow(second, <<"TypeError: Failed to fetch">>)
    /\ SecondFrame

\* Lines 108-113 of the second generator on a buffer that is not its own:
\* one buffer for all the generators of the module.
SecondReadBlock_SharedBuffer ==
    /\ second.pc = "read"
    /\ second.pos < Len(second.stream)
    /\ \E k \in (1..MaxBlock) \cup {Len(second.stream) - second.pos} :
          /\ k >= 1
          /\ second.pos + k <= Len(second.stream)
          /\ LET c == CallReadBlock([second EXCEPT !.buffer = buffer], k)
             IN  /\ second' = c
                 /\ buffer' = c.buffer
    /\ UNCHANGED <<appVars, modalVars, callerVars, written>>
    /\ UNCHANGED <<svcVars, pc, stream, pos, pending, lines, out, exit, err, reader>>

SecondReadBlock ==
    /\ second.pc = "read"
    /\ second.pos < Len(second.stream)
    /\ \E k \in (1..MaxBlock) \cup {Len(second.stream) - second.pos} :
          /\ k >= 1
          /\ second.pos + k <= Len(second.stream)
          /\ second' = CallReadBlock(second, k)
    /\ SecondFrame

SecondReadDone ==
    /\ second.pc = "read"
    /\ second.pos = Len(second.stream)
    /\ second' = [second EXCEPT !.pc = "returned", !.exit = "closed",
                                !.reader = "closed"]
    /\ SecondFrame

SecondReadError ==
    /\ second.pc = "read"
    /\ second' = [CallThrow(second, <<"TypeError: network error">>)
                     EXCEPT !.reader = "errored"]
    /\ SecondFrame

\* sendMessageStream resolves: line 230.
SecondSdkResolve ==
    /\ second.pc = "sdk-send"
    /\ \E chunks \in SdkStreams :
          second' = [second EXCEPT !.stream = chunks, !.pc = "sdk-next"]
    /\ SecondFrame

SecondSdkReject ==
    /\ second.pc \in {"sdk-send", "sdk-next"}
    /\ second' = CallThrow(second, <<"GoogleGenerativeAIError">>)
    /\ SecondFrame

\* Line 233.
SecondSdkChunk ==
    /\ second.pc = "sdk-next"
    /\ second.pos < Len(second.stream)
    /\ second' = [second EXCEPT !.out = Append(second.out,
                                               JStr(second.stream[second.pos + 1])),
                                !.pos = second.pos + 1,
                                !.pc = "yielded"]
    /\ SecondFrame

\* Line 235.
SecondSdkEnd ==
    /\ second.pc = "sdk-next"
    /\ second.pos = Len(second.stream)
    /\ second' = [second EXCEPT !.pc = "returned", !.exit = "closed"]
    /\ SecondFrame

\* The consumer of the second call pulls again after a fragment.
SecondResume ==
    /\ second.pc = "yielded"
    /\ second' = CallResume(second)
    /\ SecondFrame

\* The consumer of the second call leaves its loop after a fragment.
SecondAbandon ==
    /\ second.pc = "yielded"
    /\ second' = [second EXCEPT !.pc = "returned", !.exit = "abandoned"]
    /\ SecondFrame

-----------------------------------------------------------------------------
(* Two calls on one service with a Mistral model and its credential: the  *)
(* first made and not yet pulled, the second made at any time, each call   *)
(* to its end.                                                             *)

InitTwo ==
    /\ settings = DecoderSettings
    /\ memories = <<>>
    /\ examples = <<>>
    /\ messages = <<UserTurn>>
    /\ pc = "created"
    /\ binding = NoBinding
    /\ systemPrompt = <<>>
    /\ requests = <<>>
    /\ response = <<>>
    /\ stream = <<>>
    /\ pos = 0
    /\ pending = <<>>
    /\ buffer = <<>>
    /\ lines = <<>>
    /\ out = <<>>
    /\ exit = "none"
    /\ err = <<>>
    /\ reader = "none"
    /\ isGenerating = FALSE
    /\ streamedContent = <<>>
    /\ error = <<>>
    /\ article = <<>>
    /\ written = [settings |-> settings, memories |-> memories, examples |-> examples]
    /\ UiInit

NextTwo ==
    \/ FirstPull
    \/ FetchResolve
    \/ FetchReject
    \/ ReadBlock
    \/ ReadDone
    \/ Resume
    \/ ReadError
    \/ Abandon
    \/ SecondCall
    \/ SecondFirstPull
    \/ SecondFetchResolve
    \/ SecondFetchReject
    \/ SecondReadBlock
    \/ SecondReadDone
    \/ SecondReadError
    \/ SecondResume
    \/ SecondAbandon

SpecTwo == InitTwo /\ [][NextTwo]_vars

-----------------------------------------------------------------------------
(* The settings modal, src/src/components/SettingsModal.tsx, with          *)
(* handleSaveSettings of App.tsx.  The modal is mounted always and keeps   *)
(* its state when closed (line 70); it can be opened at any time (App.tsx  *)
(* lines 133-135 and 277) and closed at any time, a running testConnection *)
(* going on, so that its buttons and the Generate button can be clicked in *)
(* any order: isOpen is left out.  The second generator is the one         *)
(* testConnection makes.  A click is handled when no other click's task is *)
(* at work: not between a click and the first pull of the generator the    *)
(* click made (pc or second.pc = "created").                               *)

\* text.toLowerCase()
ToLowerCase(text) ==
    LET UpperCase ==
            <<"A", "B", "C", "D", "E", "F", "G", "H", "I", "J", "K", "L", "M",
              "N", "O", "P", "Q", "R", "S", "T", "U", "V", "W", "X", "Y", "Z">>
        LowerCase ==
            <<"a", "b", "c", "d", "e", "f", "g", "h", "i", "j", "k", "l", "m",
              "n", "o", "p", "q", "r", "s", "t", "u", "v", "w", "x", "y", "z">>
    IN  [i \in 1..Len(text) |->
            IF \E j \in 1..26 : UpperCase[j] = text[i]
            THEN LowerCase[CHOOSE j \in 1..26 : UpperCase[j] = text[i]]
            ELSE text[i]]

\* response.toLowerCase().includes('ok')
IncludesOk(text) ==
    \E i \in 1..(Len(text) - 1) : SubSeq(ToLowerCase(text), i, i + 1) = <<"o", "k">>

\* The onChange of a key field, line 194, for the Google key and one of
\* three values typed.
EditKey ==
    /\ pc # "created"
    /\ second.pc # "created"
    /\ \E k \in {"", "key", "other"} : localSettings' = [localSettings EXCEPT !.googleApiKey = k]
    /\ UNCHANGED <<testStatus, testError, testResponse, originalSettings, second>>
    /\ UNCHANGED <<appVars, callerVars, written>>
    /\ UNCHANGED <<svcVars, pc, stream, pos, pending, buffer, lines, out, exit, err,
                   reader>>

\* handleSave, lines 72-79, and the handleSaveSettings of App.tsx lines
\* 223-228 it calls.
HandleSave ==
    /\ pc # "created"
    /\ second.pc # "created"
    /\ appSettings' = localSettings
    /\ settings' = localSettings
    /\ written' = [written EXCEPT !.settings = localSettings]
    /\ UNCHANGED <<articles, currentArticle, onUpdateArticle, modalVars, second,
                   callerVars>>
    /\ UNCHANGED <<memories, examples, messages, pc, binding, systemPrompt, requests,
                   response, stream, pos, pending, buffer, lines, out, exit, err, reader>>

\* testConnection, lines 81-93: a click on the Test Connection button, which
\* is enabled unless a test is running (line 220), up to the call of
\* generateStreamingResponse.  settings is the prop of the render clicked.
TestConnection ==
    /\ pc # "created"
    /\ second.pc # "created"
    /\ testStatus # "testing"
    /\ testStatus' = "testing"
    /\ testError' = <<>>
    /\ originalSettings' = <<appSettings>>
    /\ settings' = localSettings
    /\ written' = [written EXCEPT !.settings = localSettings]
    /\ testResponse' = <<>>
    /\ second' = [NoCall EXCEPT
                     !.pc = "created",
                     !.messages =
                        <<[role |-> "user",
                           content |-> <<"Reply with just \"OK\" if you can read this.">>]>>]
    /\ UNCHANGED <<appVars, localSettings, callerVars>>
    /\ UNCHANGED <<memories, examples, messages, pc, binding, systemPrompt, requests,
                   response, stream, pos, pending, buffer, lines, out, exit, err, reader>>

\* aiService.updateSettings(originalSettings), line 103, and
\* aiService.updateSettings(settings), line 118: the settings prop of the
\* render clicked, of which originalSettings is the copy.
\* The test is then over: its generator and its locals are dropped.
RestoreSettings ==
    /\ settings' = originalSettings[1]
    /\ written' = [written EXCEPT !.settings = originalSettings[1]]
    /\ second' = NoCall
    /\ originalSettings' = <<>>
    /\ testResponse' = <<>>

\* The body of the for await loop, lines 95-100, for the fragment just
\* yielded: with 'ok' in the response, the break (return() on the generator)
\* and lines 102-107; without, the loop's next pull.  The timer of line 107,
\* which sets testStatus to 'idle' three seconds later, is left out: the
\* button is enabled in 'success' as it is in 'idle'.
TestLoopBody ==
    /\ second.pc = "yielded"
    /\ pc # "created"
    /\ LET text == testResponse \o ChunkText(second.out[Len(second.out)])
       IN  IF IncludesOk(text)
           THEN /\ RestoreSettings
                /\ testStatus' = "success"
                /\ UNCHANGED testError
           ELSE /\ testResponse' = text
                /\ second' = CallResume(second)
                /\ UNCHANGED <<settings, written, testStatus, testError,
                               originalSettings>>
    /\ UNCHANGED <<appVars, localSettings, callerVars>>
    /\ UNCHANGED <<memories, examples, messages, pc, binding, systemPrompt, requests,
                   response, stream, pos, pending, buffer, lines, out, exit, err, reader>>

\* The generator has ended: lines 102-112.
TestDone ==
    /\ second.pc = "returned"
    /\ pc # "created"
    /\ RestoreSettings
    /\ IF IncludesOk(testResponse)
       THEN testStatus' = "success" /\ UNCHANGED testError
       ELSE testStatus' = "error" /\ testError' = <<"Unexpected response from API">>
    /\ UNCHANGED <<appVars, localSettings, callerVars>>
    /\ UNCHANGED <<memories, examples, messages, pc, binding, systemPrompt, requests,
                   response, stream, pos, pending, buffer, lines, out, exit, err, reader>>

\* The generator has thrown: the catch block, lines 113-119.
TestCatch ==
    /\ second.pc = "threw"
    /\ pc # "created"
    /\ testStatus' = "error"
    /\ testError' = second.err
    /\ RestoreSettings
    /\ UNCHANGED <<appVars, localSettings, callerVars>>
    /\ UNCHANGED <<memories, examples, messages, pc, binding, systemPrompt, requests,
                   response, stream, pos, pending, buffer, lines, out, exit, err, reader>>

NextUi ==
    \/ EditKey
    \/ HandleSave
    \/ TestConnection
    \/ SecondFirstPull
    \/ SecondSdkResolve
    \/ SecondSdkReject
    \/ SecondSdkChunk
    \/ SecondSdkEnd
    \/ TestLoopBody
    \/ TestDone
    \/ TestCatch
    \/ HandleGenerate
    \/ FirstPull
    \/ SdkResolve
    \/ SdkReject
    \/ SdkChunk
    \/ SdkEnd
    \/ LoopBody
    \/ HandleDone
    \/ HandleCatch

SpecUi == InitUi /\ [][NextUi]_vars

-----------------------------------------------------------------------------
(* What the wire format says a stream holds, read off the text itself. *)

\* The text of the bytes delivered so far.
Delivered == Utf8Decode(SubSeq(stream, 1, pos)).text

\* The newline-terminated lines of a text.
TerminatedLines(text) == Front(Split(text))

\* The lines of ls before its first 'data: [DONE]' line.
BeforeDone(ls) ==
    IF \E i \in 1..Len(ls) : ls[i] = LineDone
    THEN SubSeq(ls, 1, (CHOOSE i \in 1..Len(ls) :
                           ls[i] = LineDone /\ \A k \in 1..(i - 1) : ls[k] # LineDone) - 1)
    ELSE ls

\* choices[0].delta.content of a line's event, Undefined when the line is no
\* 'data: ' line, its payload is not JSON or the member is not there.
DeltaContent(line) ==
    IF ~StartsWith(line, DataPrefix) THEN Undefined
    ELSE LET p == JsonParse(Slice(line, Len(DataPrefix)))
         IN  IF /\ p.ok
                /\ p.v.t = "object"
                /\ "choices" \in DOMAIN p.v.f
                /\ p.v.f.choices.t = "array"
                /\ Len(p.v.f.choices.a) >= 1
                /\ p.v.f.choices.a[1].t = "object"
                /\ "delta" \in DOMAIN p.v.f.choices.a[1].f
                /\ p.v.f.choices.a[1].f.delta.t = "object"
                /\ "content" \in DOMAIN p.v.f.choices.a[1].f.delta.f
             THEN p.v.f.choices.a[1].f.delta.f.content
             ELSE Undefined

\* A content value that is there and is not the empty text.
NonEmpty(v) == v.t \notin {"undefined", "null"} /\ v # JStr(<<>>)

HasContent(line) == NonEmpty(DeltaContent(line))

\* The non-empty content values of the lines of ls, in order.
Contents(ls) ==
    LET with == SelectSeq(ls, HasContent)
    IN  [i \in 1..Len(with) |-> DeltaContent(with[i])]

\* The lines of the delivered text the for loop has visited.
Visited ==
    LET all == TerminatedLines(Delivered)
    IN  SubSeq(all, 1, Len(all) - Len(lines))

\* The fragments of delivering all of bytes as one block.
RECURSIVE Collect(_)
Collect(ls) ==
    LET r == RunLines(ls)
    IN  IF r.kind = "yield" THEN <<r.content>> \o Collect(r.rest) ELSE <<>>

OneBlock(bytes) == Collect(Front(Split(Utf8Decode(bytes).text)))

-----------------------------------------------------------------------------
(* The chunk decoder's claims, under SpecDecoder. *)

\* C1: whenever the decoder waits for the next block or has ended, the
\* fragments yielded are, in order, the non-empty choices[0].delta.content
\* values of the newline-terminated 'data: ' lines delivered that precede the
\* first 'data: [DONE]' line; all other lines contribute nothing.
C1_FragmentsAreContents ==
    pc \in {"read", "returned"} =>
        out = Contents(BeforeDone(TerminatedLines(Delivered)))

\* Two events with a line that is no 'data: ' line first: both fragments, in order.
C1_Witness ==
    /\ pc = "returned"
    /\ exit = "closed"
    /\ TerminatedLines(Delivered) = <<LineAcute, LineHi>>
    /\ out = <<JStr(<<EAcute>>), JStr(<<"H", "i">>)>>

\* C2: once the for loop has visited a 'data: [DONE]' line the generator has
\* returned, with no error, and the fragments are those of the lines before
\* that line: none of a later line of the same block or of a later block.
C2_SentinelEnds ==
    (\E i \in 1..Len(Visited) : Visited[i] = LineDone) =>
        /\ pc = "returned"
        /\ exit = "sentinel"
        /\ err = <<>>
        /\ out = Contents(BeforeDone(Visited))

\* The sentinel was seen with an event after it in the same block.
C2_Witness ==
    /\ exit = "sentinel"
    /\ lines = <<LineHi>>
    /\ out = <<>>

\* C3: when the generator has ended, the fragments are those of delivering
\* the whole stream as one block, however the stream was cut into blocks.
C3_SplitInvariant ==
    pc = "returned" => out = OneBlock(stream)

\* A stream longer than a block that ended with a fragment yielded and an
\* unterminated sentinel left in the buffer.
C3_Witness ==
    /\ pc = "returned"
    /\ exit = "closed"
    /\ Len(stream) > MaxBlock
    /\ buffer = LineDone
    /\ out = <<JStr(<<EAcute>>)>>

\* C4: no line makes the decoder throw, and every well-formed event the loop
\* has visited before the sentinel is among the fragments, whatever
\* malformed, empty or content-free 'data: ' lines came before it.
C4_MalformedSkipped ==
    /\ err = <<>>
    /\ pc # "threw"
    /\ exit # "error"
    /\ pc \in {"read", "returned"} =>
          \A i \in 1..Len(BeforeDone(Visited)) :
              HasContent(Visited[i]) =>
                  \E j \in 1..Len(out) : out[j] = DeltaContent(Visited[i])

\* An undecodable line, then a well-formed event that was yielded.
C4_Witness ==
    /\ pc = "returned"
    /\ TerminatedLines(Delivered) = <<LineNotJson, LineHi>>
    /\ out = <<JStr(<<"H", "i">>)>>

\* C5: every fragment is a non-empty text.
C5_FragmentsAreText ==
    \A i \in 1..Len(out) : out[i].t = "string" /\ out[i].s # <<>>

-----------------------------------------------------------------------------
(* The claims of the aggregator and its parts, under Spec. *)

\* The credential of a provider in the settings.
Credential(provider) ==
    CASE provider = "google" -> settings.googleApiKey
      [] provider = "mistral" -> settings.mistralApiKey
      [] provider = "cerebras" -> settings.cerebrasApiKey
      [] provider = "zhipu" -> settings.zhipuApiKey

\* '<Provider> API key not set'
NotSetMessage(provider) ==
    CASE provider = "google" -> <<"Google API key not set">>
      [] provider = "mistral" -> <<"Mistral API key not set">>
      [] provider = "cerebras" -> <<"Cerebras API key not set">>
      [] provider = "zhipu" -> <<"Zhipu API key not set">>

\* C6: a first pull made while the credential of the provider resolved from
\* the selected model is the empty string ends the call with that provider's
\* 'API key not set' error, with no fragment yielded and no network request
\* issued, whatever the other credentials are.
C6_EmptyKeyFailsBeforeNetwork ==
    [][(/\ pc = "created"
        /\ pc' # "created"
        /\ Credential(binding'.provider) = "")
       => /\ pc' = "threw"
          /\ err' = NotSetMessage(binding'.provider)
          /\ requests' = <<>>
          /\ out' = <<>>]_vars

\* The Cerebras call failed on its empty credential with every other
\* credential set.
C6_Witness ==
    /\ pc = "threw"
    /\ binding.provider = "cerebras"
    /\ settings.cerebrasApiKey = ""
    /\ settings.googleApiKey # ""
    /\ settings.mistralApiKey # ""
    /\ settings.zhipuApiKey # ""
    /\ err = <<"Cerebras API key not set">>
    /\ requests = <<>>

\* sub is a run of consecutive pieces of text.
Contains(text, sub) ==
    \E i \in 1..(Len(text) + 1) :
        i + Len(sub) - 1 <= Len(text) /\ SubSeq(text, i, i + Len(sub) - 1) = sub

\* C7: after a response whose status is not a success the call has failed,
\* the error's message holds the status code and the text of the body, no
\* fragment was yielded and no byte of the body reached the decoder.
C7_ApiErrorCarriesStatusAndBody ==
    (response # <<>> /\ response[1].status \notin 200..299) =>
        /\ pc = "threw"
        /\ Contains(err, <<ToString(response[1].status)>>)
        /\ Contains(err, Utf8Decode(response[1].bytes).text)
        /\ out = <<>>
        /\ stream = <<>>
        /\ pos = 0
        /\ buffer = <<>>
        /\ lines = <<>>

\* A 429 with the body "rate limited".
C7_Witness ==
    /\ pc = "threw"
    /\ response # <<>>
    /\ response[1].status = 429
    /\ err = <<"API Error: ", "429", " - ">> \o RateLimited

\* C8: after a successful response that has no body the call has failed
\* with 'No response body', and no fragment was yielded.
C8_NoResponseBody ==
    (response # <<>> /\ response[1].status \in 200..299 /\ ~response[1].hasBody) =>
        /\ pc = "threw"
        /\ err = <<"No response body">>
        /\ out = <<>>

C8_Witness ==
    /\ pc = "threw"
    /\ response # <<>>
    /\ response[1].status = 200
    /\ ~response[1].hasBody
    /\ err = <<"No response body">>

\* The provider tag of a provider name of the model table.
ProviderTag(name) ==
    CASE name = "Google" -> "google"
      [] name = "Mistral" -> "mistral"
      [] name = "Cerebras" -> "cerebras"
      [] name = "Zhipu" -> "zhipu"

\* The binding the claim gives an identifier: its table provider and itself,
\* or the default binding.
ClaimedBinding(id) ==
    IF \E i \in 1..Len(models) : models[i].id = id
    THEN [provider |-> ProviderTag((CHOOSE m \in {models[i] : i \in 1..Len(models)} :
                                        m.id = id).provider),
          modelId |-> id]
    ELSE [provider |-> "google", modelId |-> "gemini-2.5-flash"]

\* C9: whatever the selected model, the first pull resolves it: to its table
\* provider with the identifier itself as model id when the table lists it,
\* to the default binding (google, gemini-2.5-flash) when not.
C9_RouterTotal ==
    pc \notin {"idle", "created"} => binding = ClaimedBinding(settings.selectedModel)

\* An identifier no table lists was resolved to the default binding.
C9_Witness ==
    /\ pc = "sdk-send"
    /\ settings.selectedModel = "gemini-1.5-flash"
    /\ binding = [provider |-> "google", modelId |-> "gemini-2.5-flash"]

\* C10: with no memory and no example the system prompt of the call is the
\* style guide and nothing else.
C10_PromptIsStyleGuide ==
    (pc \notin {"idle", "created"} /\ memories = <<>> /\ examples = <<>>) =>
        systemPrompt = <<humanWritingPrompt>>

\* A fetch was issued with the style guide alone as the system turn.
C10_Witness ==
    /\ pc = "fetch"
    /\ memories = <<>>
    /\ examples = <<>>
    /\ requests[1].body.messages[1] = [role |-> "system", content |-> <<humanWritingPrompt>>]

-----------------------------------------------------------------------------
(* The sections of a prompt, read off its pieces. *)

\* The places of a piece in a prompt.
PlacesOf(prompt, piece) == {k \in 1..Len(prompt) : prompt[k] = piece}

ContextHeading == "\n\n--- AUTHOR CONTEXT ---\n"
StyleHeading == "\n\n--- WRITING STYLE TO MATCH ---\n"
BulletMark == "U+2022 "

\* The place of the i-th bullet of a prompt.
BulletPlace(prompt, i) ==
    CHOOSE k \in PlacesOf(prompt, BulletMark) :
        Cardinality({j \in PlacesOf(prompt, BulletMark) : j <= k}) = i

\* The piece ends a line.
EndsLine(piece) ==
    piece \in {NL, "Use this information naturally in your writing:\n"}

\* C11: the prompt of a call starts with the style guide, which appears
\* nowhere else; the author-context heading is there exactly when there are
\* memories and the style heading exactly when there are examples, the first
\* before the second; and with N >= 1 memories the prompt has N bullet lines,
\* all between the author-context heading and the style heading (or the end),
\* the i-th holding the content of the i-th memory and then a newline, each
\* starting right after the end of a line.
C11_MemoriesInOrder ==
    pc \notin {"idle", "created"} =>
        LET prompt == systemPrompt
            ctx == PlacesOf(prompt, ContextHeading)
            sty == PlacesOf(prompt, StyleHeading)
            N == Len(memories)
        IN  /\ PlacesOf(prompt, humanWritingPrompt) = {1}
            /\ Cardinality(ctx) = (IF N > 0 THEN 1 ELSE 0)
            /\ Cardinality(sty) = (IF Len(examples) > 0 THEN 1 ELSE 0)
            /\ \A a \in ctx, e \in sty : 1 < a /\ a < e
            /\ \A e \in sty : 1 < e
            /\ Cardinality(PlacesOf(prompt, BulletMark)) = N
            /\ \A i \in 1..N :
                  LET k == BulletPlace(prompt, i)
                      c == memories[i].content
                  IN  /\ EndsLine(prompt[k - 1])
                      /\ SubSeq(prompt, k + 1, k + Len(c) + 1) = c \o <<NL>>
                      /\ \A a \in ctx : a < k
                      /\ \A e \in sty : k + Len(c) + 1 < e

\* A call whose prompt was built from two different memories and an example.
C11_Witness ==
    /\ pc = "fetch"
    /\ Len(memories) = 2
    /\ memories[1] # memories[2]
    /\ Len(examples) > 0
    /\ requests[1].body.messages[1].content = systemPrompt

\* The place of the block of the i-th example in a prompt: its heading is
\* the piece "Example " followed by the number i.
BlockPlace(prompt, i) ==
    CHOOSE k \in PlacesOf(prompt, "Example ") : prompt[k + 1] = ToString(i)

\* C12: an example of more than 600 characters is in the prompt of a call as
\* its heading, its first 600 characters and, right after them, the piece
\* that starts with the ellipsis; the character after the 600th, here "Z",
\* is nowhere in the prompt.
C12_LongExampleTruncated ==
    pc \notin {"idle", "created"} =>
        \A i \in 1..Len(examples) :
            Len(examples[i].content) > 600 =>
                LET prompt == systemPrompt
                    k == BlockPlace(prompt, i)
                    c == examples[i].content
                IN  /\ \E j \in PlacesOf(prompt, "Example ") : prompt[j + 1] = ToString(i)
                    /\ prompt[k + 2] = ":\n\""
                    /\ SubSeq(prompt, k + 3, k + 602) = SubSeq(c, 1, 600)
                    /\ prompt[k + 603] = "...\"\n\n"
                    /\ PlacesOf(prompt, c[601]) = {}

\* A call whose prompt was built with the 601-character example as the
\* second of two.
C12_Witness ==
    /\ pc = "fetch"
    /\ Len(examples) = 2
    /\ examples[2] = LongExample
    /\ Len(systemPrompt) > 600

-----------------------------------------------------------------------------
(* Configuration updates and calls. *)

\* The state of the call: all but the service's three fields, the caller and
\* the record of what was written.
callVars == <<messages, pc, binding, systemPrompt, requests, response, stream, pos,
              pending, buffer, lines, out, exit, err, reader>>

\* The credential a request carries.
KeyIn(request) ==
    IF request.kind = "sdk" THEN request.apiKey ELSE request.headers.Authorization[2]

\* The system prompt a request carries: the content of the system turn, or
\* the start of the message sent to the SDK.
PromptIn(request, prompt) ==
    IF request.kind = "sdk"
    THEN SubSeq(request.message, 1, Len(prompt)) = prompt
    ELSE request.body.messages[1] = [role |-> "system", content |-> prompt]

\* C13: a step that changes the settings, the memories or the examples
\* changes nothing of the call; and from its first pull to its end the
\* provider, the model id, the system prompt and the request of a call (with
\* its credential) stay what the first pull made them, whatever is written
\* meanwhile.  The first pull itself takes what the service holds then.
C13_UpdatesLeaveCallAlone ==
    [][/\ (settings' # settings \/ memories' # memories \/ examples' # examples)
            => UNCHANGED callVars
       /\ (pc \notin {"idle", "created"} /\ pc' # "idle")
            => /\ binding' = binding
               /\ systemPrompt' = systemPrompt
               /\ requests' = requests
       /\ (pc = "created" /\ pc' # "created")
            => /\ binding' = ClaimedBinding(settings.selectedModel)
               /\ systemPrompt' = BuildSystemPrompt
               /\ \A i \in 1..Len(requests') :
                     /\ KeyIn(requests'[i]) = Credential(binding'.provider)
                     /\ PromptIn(requests'[i], systemPrompt')]_vars

\* A Google call has yielded a fragment, and the service now holds another
\* provider's model, another credential and other memories than the call
\* uses.
C13_Witness ==
    /\ pc = "yielded"
    /\ binding.provider = "google"
    /\ settings.selectedModel = "mistral-large-latest"
    /\ settings.googleApiKey = ""
    /\ KeyIn(requests[1]) = "key"
    /\ systemPrompt # BuildSystemPrompt

\* C14: the service holds exactly what the last update of each kind was
\* given; a step that changes one of settings, memories and examples leaves
\* the other two as they were; and the first pull of a call takes its
\* provider, model id, credential and system prompt from what the service
\* holds then.
C14_LastWrittenUsed ==
    [][/\ written' = [settings |-> settings', memories |-> memories',
                      examples |-> examples']
       /\ settings' # settings => (memories' = memories /\ examples' = examples)
       /\ memories' # memories => (settings' = settings /\ examples' = examples)
       /\ examples' # examples => (settings' = settings /\ memories' = memories)
       /\ (pc = "created" /\ pc' # "created")
            => /\ binding' = ClaimedBinding(written.settings.selectedModel)
               /\ systemPrompt' = BuildSystemPrompt
               /\ \A i \in 1..Len(requests') :
                     /\ KeyIn(requests'[i]) = Credential(binding'.provider)
                     /\ PromptIn(requests'[i], systemPrompt')
                     /\ (requests'[i].kind = "fetch"
                            => requests'[i].body.model = written.settings.selectedModel)]_vars

\* A call was made after the settings, the memories and the examples had all
\* been written, and its request carries the credential and the prompt of
\* what was written.
C14_Witness ==
    /\ pc = "fetch"
    /\ written.settings # DefaultSettings
    /\ written.memories # <<>>
    /\ written.examples # <<>>
    /\ KeyIn(requests[1]) = written.settings.zhipuApiKey
    /\ binding.provider = "zhipu"

-----------------------------------------------------------------------------
(* The network stream of a call. *)

\* C15: when the consumer of a call on an OpenAI-compatible provider has
\* taken one fragment and left the loop, the reader of the response body is
\* released: cancelled, or at the end of its stream.
C15_AbandonReleasesReader ==
    (exit = "abandoned" /\ Len(out) = 1 /\ binding.provider # "google") =>
        reader \in {"cancelled", "closed", "errored"}

\* The provider a URL belongs to.
ProviderOfUrl(url) ==
    CASE url = "https://api.mistral.ai/v1/chat/completions" -> "mistral"
      [] url = "https://api.cerebras.ai/v1/chat/completions" -> "cerebras"
      [] url = "https://open.bigmodel.cn/api/paas/v4/chat/completions" -> "zhipu"
      [] OTHER -> "none"

\* The provider a request goes to.
ProviderOfRequest(request) ==
    IF request.kind = "sdk" THEN "google" ELSE ProviderOfUrl(request.url)

\* C16: a call has issued at most one request and holds at most one
\* response; its request went to the provider the selected model resolves
\* to; and a call that failed on its credential issued none.
C16_OneStreamToResolvedProvider ==
    /\ Len(requests) <= 1
    /\ Len(response) <= 1
    /\ response # <<>> => Len(requests) = 1
    /\ \A i \in 1..Len(requests) :
          /\ ProviderOfRequest(requests[i]) = binding.provider
          /\ binding = ClaimedBinding(settings.selectedModel)
    /\ (pc = "threw" /\ Credential(binding.provider) = "") => requests = <<>>

\* A call whose fetch was rejected ended with the one request it had made.
C16_Witness ==
    /\ pc = "threw"
    /\ err = <<"TypeError: Failed to fetch">>
    /\ Len(requests) = 1
    /\ ProviderOfRequest(requests[1]) = "cerebras"

\* The texts the SDK's stream has delivered so far, as fragments.
SdkDelivered == [i \in 1..pos |-> JStr(stream[i])]

\* C17: the fragments of a Google call are the texts of the chunks the SDK
\* has delivered, one for one and in order, the empty ones too; the
\* fragments of a call on another provider are, whenever the decoder waits
\* for a block or has ended by itself, those of the chunk decoder over the
\* bytes delivered.
C17_AggregatorTransparent ==
    /\ (binding.provider = "google" /\ pc \in {"sdk-next", "yielded", "returned", "threw"})
          => out = SdkDelivered
    /\ (binding.provider \in {"mistral", "cerebras", "zhipu"}
          /\ (pc = "read" \/ (pc = "returned" /\ exit # "abandoned")))
          => out = OneBlock(SubSeq(stream, 1, pos))

\* A Google call has ended after three chunks, the second of them empty.
C17_Witness ==
    /\ binding.provider = "google"
    /\ pc = "returned"
    /\ Len(out) = 3
    /\ out[2] = JStr(<<>>)

\* The error an adapter raises in a step that makes the call fail.
Raised ==
    CASE pc = "created" /\ Credential(binding'.provider) = "" ->
             NotSetMessage(binding'.provider)
      [] pc = "created" /\ Credential(binding'.provider) # "" -> <<"TypeError">>
      [] pc = "fetch" /\ response' = <<>> -> <<"TypeError: Failed to fetch">>
      [] pc = "fetch" /\ response' # <<>> /\ response'[1].status \notin 200..299 ->
             <<"API Error: ", ToString(response'[1].status), " - ">>
             \o Utf8Decode(response'[1].bytes).text
      [] pc = "fetch" /\ response' # <<>> /\ response'[1].status \in 200..299 ->
             <<"No response body">>
      [] pc = "read" -> <<"TypeError: network error">>
      [] pc \in {"sdk-send", "sdk-next"} -> <<"GoogleGenerativeAIError">>
      [] OTHER -> <<>>

\* C18: the step that makes a call fail gives the caller the error the
\* adapter raised, as raised, and changes neither the settings nor the
\* memories nor the examples nor the fragments already yielded; and once the
\* failed call is let go the service is as before any call: nothing of the
\* call is left.
C18_ErrorsUnmodifiedAndScoped ==
    [][/\ (pc # "threw" /\ pc' = "threw")
            => /\ err' = Raised
               /\ UNCHANGED <<settings, memories, examples, out>>
       /\ (pc = "threw" /\ pc' # "threw")
            => /\ pc' = "idle"
               /\ UNCHANGED <<settings, memories, examples>>
               /\ messages' = <<>> /\ binding' = NoBinding /\ systemPrompt' = <<>>
               /\ requests' = <<>> /\ response' = <<>> /\ stream' = <<>>
               /\ pos' = 0 /\ pending' = <<>> /\ buffer' = <<>> /\ lines' = <<>>
               /\ out' = <<>> /\ exit' = "none" /\ err' = <<>>]_vars

\* A Google call failed after two fragments, with memories written.
C18_Witness ==
    /\ pc = "threw"
    /\ err = <<"GoogleGenerativeAIError">>
    /\ Len(out) = 2
    /\ memories # <<>>

-----------------------------------------------------------------------------
(* The caller's text when a call fails. *)

\* C19: when the call of handleGenerate fails after fragments were shown,
\* the handling of the failure leaves the text streamed so far as it is.
C19_PartialOutputRetained ==
    [][(pc = "threw" /\ pc' # "threw" /\ isGenerating /\ streamedContent # <<>>)
          => streamedContent' = streamedContent]_vars

-----------------------------------------------------------------------------
(* What a call gives with a working provider. *)

\* The provider of the call did its part: no transport failure, and if it
\* was asked, a successful response whose stream holds a non-empty content
\* (an event with content before any sentinel, or a chunk with text).
ProviderWorking ==
    /\ err \notin {<<"TypeError: Failed to fetch">>, <<"TypeError: network error">>,
                   <<"GoogleGenerativeAIError">>}
    /\ response # <<>> =>
          /\ response[1].status \in 200..299
          /\ response[1].hasBody
          /\ Contents(BeforeDone(TerminatedLines(Utf8Decode(response[1].bytes).text)))
                # <<>>
    /\ (binding.provider = "google" /\ requests # <<>>) =>
          \E i \in 1..Len(stream) : stream[i] # <<>>

\* C20: a call that has ended by itself, with the credential of its provider
\* set and a working provider, has returned (it has not thrown) after at
\* least one fragment, one of them not empty.
C20_GenerateYieldsText ==
    (/\ pc \in {"returned", "threw"}
     /\ exit # "abandoned"
     /\ Credential(binding.provider) # ""
     /\ ProviderWorking)
    => /\ pc = "returned"
       /\ out # <<>>
       /\ \E i \in 1..Len(out) : NonEmpty(out[i])

-----------------------------------------------------------------------------
(* What a request carries. *)

\* The URL the specification of a provider gives its chat endpoint.
UrlOfProvider(provider) ==
    CASE provider = "mistral" -> "https://api.mistral.ai/v1/chat/completions"
      [] provider = "cerebras" -> "https://api.cerebras.ai/v1/chat/completions"
      [] provider = "zhipu" -> "https://open.bigmodel.cn/api/paas/v4/chat/completions"
      [] OTHER -> "none"

\* C23: the body of a fetch request has as messages the system turn with the
\* system prompt of the call, then the turns of the conversation as given, in
\* their order; and the request is, but for its URL and its credential, the
\* same whichever of Mistral, Cerebras and Zhipu it goes to: the URL is the
\* provider's and the credential the provider's key.
C23_RequestBody ==
    \A i \in 1..Len(requests) :
        requests[i].kind = "fetch" =>
            LET r == requests[i]
            IN  /\ r.body.messages[1] = [role |-> "system", content |-> systemPrompt]
                /\ Len(r.body.messages) = Len(messages) + 1
                /\ \A k \in 1..Len(messages) : r.body.messages[k + 1] = messages[k]
                /\ binding.provider \in {"mistral", "cerebras", "zhipu"}
                /\ r.url = UrlOfProvider(binding.provider)
                /\ r.headers.Authorization = <<"Bearer ", Credential(binding.provider)>>
                /\ [r EXCEPT !.url = "", !.headers.Authorization = <<>>,
                             !.body.messages = <<>>, !.body.model = ""]
                     = [kind |-> "fetch", url |-> "", method |-> "POST",
                        headers |-> [ContentType |-> "application/json",
                                     Authorization |-> <<>>],
                        body |-> [model |-> "", messages |-> <<>>, stream |-> TRUE,
                                  temperature |-> "0.85", max_tokens |-> 8000]]
                /\ r.body.model = binding.modelId

\* A Zhipu call has sent a conversation of three turns, with memories in the
\* system prompt.
C23_Witness ==
    /\ pc = "fetch"
    /\ binding.provider = "zhipu"
    /\ Len(messages) = 3
    /\ memories # <<>>
    /\ Len(requests[1].body.messages) = 4

\* The role the SDK has for a role of the conversation.
SdkRole(role) == IF role = "assistant" THEN "model" ELSE role

\* C24: the request of a Google call has as history the turns of the
\* conversation but the last, in order, each with its role ('assistant'
\* become 'model') and its content as its one text part; and as message the
\* system prompt, the delimiter and the content of the last turn.
C24_GoogleHistory ==
    \A i \in 1..Len(requests) :
        requests[i].kind = "sdk" =>
            LET r == requests[i]
            IN  /\ Len(r.history) = Len(messages) - 1
                /\ \A k \in 1..(Len(messages) - 1) :
                      /\ r.history[k].role = SdkRole(messages[k].role)
                      /\ r.history[k].parts = <<[text |-> messages[k].content]>>
                /\ r.message = systemPrompt \o <<"\n\n---\n\n">>
                                 \o messages[Len(messages)].content

\* A Google call has sent a conversation of three turns: two of history, the
\* second of them the model's.
C24_Witness ==
    /\ pc = "sdk-send"
    /\ Len(messages) = 3
    /\ Len(requests[1].history) = 2
    /\ requests[1].history[2].role = "model"
    /\ requests[1].history[1].role = "user"

-----------------------------------------------------------------------------
(* The buffer of the chunk decoder, under SpecDecoder. *)

\* C26: the step on which the byte stream closes yields no fragment and
\* decodes nothing: the fragments stay as they were and the generator ends,
\* whatever unterminated last line the buffer holds.
C26_TailDiscarded ==
    [][(pc = "read" /\ pos = Len(stream)) =>
          /\ pc' = "returned"
          /\ exit' = "closed"
          /\ out' = out
          /\ err' = err]_vars

\* The stream was one 'data: ' event without a newline after it: it closed
\* with the event in the buffer and no fragment.
C26_Witness ==
    /\ exit = "closed"
    /\ pos = Len(stream)
    /\ buffer = LineHi
    /\ out = <<>>

\* The text after the last newline of text: all of it when it has none.
AfterLastNewline(text) ==
    LET at == {i \in 1..Len(text) : text[i] = NL}
        last == IF at = {} THEN 0 ELSE CHOOSE i \in at : \A j \in at : j <= i
    IN  SubSeq(text, last + 1, Len(text))

\* C30: after each block the buffer holds no newline and is the part of all
\* the text received that follows its last newline.
C30_BufferIsTail ==
    /\ \A i \in 1..Len(buffer) : buffer[i] # NL
    /\ buffer = AfterLastNewline(Delivered)

\* Two blocks or more have been received, with a newline among them, and
\* the buffer holds the start of the next line.
C30_Witness ==
    /\ pos > MaxBlock
    /\ \E i \in 1..Len(Delivered) : Delivered[i] = NL
    /\ buffer # <<>>
    /\ Len(buffer) < Len(Delivered)

-----------------------------------------------------------------------------
(* The call and its first pull, under SpecLazy. *)

\* C25: a call that was made and not yet pulled has read nothing and asked
\* nothing: no binding, no system prompt, no request, no response.  Once
\* pulled, its binding, its system prompt and the credential of its request
\* are those of what the service held at the first pull (the service is not
\* written later in this specification), and a credential written between the
\* call and the first pull is the one used: the call does not fail on the
\* empty credential the service had when the call was made.
C25_LazyUntilFirstPull ==
    /\ pc = "created" =>
          /\ binding = NoBinding
          /\ systemPrompt = <<>>
          /\ requests = <<>>
          /\ response = <<>>
          /\ out = <<>>
          /\ exit = "none"
    /\ pc # "created" =>
          /\ binding = ClaimedBinding(settings.selectedModel)
          /\ systemPrompt = BuildSystemPrompt
          /\ Len(requests) <= 1
          /\ \A i \in 1..Len(requests) :
                /\ KeyIn(requests[i]) = Credential(binding.provider)
                /\ PromptIn(requests[i], systemPrompt)
          /\ Credential(binding.provider) # "" =>
                /\ err # NotSetMessage(binding.provider)
                /\ (binding.provider # "google" \/ messages # <<>>) => requests # <<>>

\* The service was given a Mistral model, its credential and a memory after
\* the call was made: the request of the call carries them.
C25_Witness ==
    /\ pc = "fetch"
    /\ settings.selectedModel = "mistral-large-latest"
    /\ settings.mistralApiKey = "key"
    /\ memories # <<>>
    /\ KeyIn(requests[1]) = "key"
    /\ requests[1].body.model = "mistral-large-latest"
    /\ PromptIn(requests[1], BuildSystemPrompt)
    /\ systemPrompt # <<humanWritingPrompt>>

-----------------------------------------------------------------------------
(* The end of a run of handleGenerate, under SpecArticleFair. *)

\* C28: while a run of handleGenerate goes on, isGenerating stays true and
\* onUpdateArticle has not been called; the step that follows the return of
\* the generator sets isGenerating false, calls onUpdateArticle once and sets
\* no error; the step that follows its throw sets isGenerating false, sets an
\* error message and does not call onUpdateArticle; and a run whose generator
\* has returned or thrown comes to isGenerating false.
C28_GeneratingEnds ==
    /\ [][/\ (isGenerating /\ pc = "returned") =>
                /\ ~isGenerating'
                /\ Len(article') = 1
                /\ error' = <<>>
          /\ (isGenerating /\ pc = "threw") =>
                /\ ~isGenerating'
                /\ article' = <<>>
                /\ error' # <<>>
          /\ (isGenerating /\ pc \notin {"returned", "threw"}) =>
                /\ isGenerating'
                /\ article' = <<>>]_vars
    /\ (isGenerating /\ pc \in {"returned", "threw"}) ~> ~isGenerating

\* A run has failed on its transport: it is over, with the network error
\* message and no article.
C28_Witness ==
    /\ ~isGenerating
    /\ pc = "idle"
    /\ error = <<"Network error. Check internet and try again.">>
    /\ article = <<>>
    /\ streamedContent = <<>>

-----------------------------------------------------------------------------
(* The articles of App, under SpecApp. *)

\* C29: currentArticle is null or an article whose id is the id of an
\* article of the list.
C29_CurrentArticleListed ==
    currentArticle # <<>> =>
        \E i \in 1..Len(articles) : articles[i].id = currentArticle[1].id

-----------------------------------------------------------------------------
(* Two calls, under SpecTwo. *)

\* The locals of the first call, as a record like second.
first ==
    [pc |-> pc, messages |-> messages, binding |-> binding,
     systemPrompt |-> systemPrompt, requests |-> requests, response |-> response,
     stream |-> stream, pos |-> pos, pending |-> pending, buffer |-> buffer,
     lines |-> lines, out |-> out, exit |-> exit, err |-> err, reader |-> reader]

\* The fragments the wire format gives for what call c has been delivered of
\* its own stream and has visited of it.
FragmentsOf(c) ==
    LET text == Utf8Decode(SubSeq(c.stream, 1, c.pos)).text
        all == TerminatedLines(text)
    IN  Contents(BeforeDone(SubSeq(all, 1, Len(all) - Len(c.lines))))

\* Call c has what is its own: one request at most, with its own
\* conversation after the system turn and the credential of the service; the
\* body of its own response as its stream; the tail of its own text as its
\* buffer; and as fragments those of its own stream, in order.
OwnStream(c) ==
    /\ Len(c.requests) <= 1
    /\ \A i \in 1..Len(c.requests) :
          /\ c.requests[i].body.messages =
                <<[role |-> "system", content |-> c.systemPrompt]>> \o c.messages
          /\ KeyIn(c.requests[i]) = Credential(c.binding.provider)
    /\ c.stream # <<>> => (c.response # <<>> /\ c.stream = c.response[1].bytes)
    /\ c.buffer = AfterLastNewline(Utf8Decode(SubSeq(c.stream, 1, c.pos)).text)
    /\ c.out = FragmentsOf(c)

\* C21: each of two calls whose steps interleave has its own request, stream
\* and buffer and is given the fragments of its own stream, in order; and no
\* step of one call (a fragment, the sentinel, an error, an abandonment)
\* changes anything of the other.
C21_CallsIsolated ==
    /\ [](OwnStream(first) /\ OwnStream(second))
    /\ [][first' = first \/ second' = second]_vars

\* The first call failed while its body was being read, after a fragment;
\* the second, whose stream was read while the first's was, went on to its
\* sentinel and has its fragment.
C21_Witness ==
    /\ pc = "threw"
    /\ err = <<"TypeError: network error">>
    /\ out = <<JStr(<<"H", "i">>)>>
    /\ second.pc = "returned"
    /\ second.exit = "sentinel"
    /\ second.out = <<JStr(<<"H", "i">>)>>
    /\ second.messages # messages

-----------------------------------------------------------------------------
(* The connection test and the generation, under SpecUi. *)

\* C22: the generation of handleGenerate and the call of testConnection are
\* never in flight together on the service.
C22_OneCallInFlight ==
    ~(pc # "idle" /\ second.pc # "idle")

\* C27: when no test is running the service holds the settings last saved,
\* and the first pull of a generation takes the credential of the settings
\* last saved.
C27_TestSideEffectFree ==
    /\ [](testStatus # "testing" => settings = appSettings)
    /\ [][(pc = "created" /\ pc' = "sdk-send") =>
              KeyIn(requests'[Len(requests')]) = appSettings.googleApiKey]_vars

====
